---- MODULE Spec2Model ----
(***************************************************************************)
(* Yomicord dictionary engine (src/src/plugins/yomicord/dictionary.ts):    *)
(* the DataStore-backed entry store, the import / delete / orphan          *)
(* maintenance operations, the two caches and lookupTerm.                  *)
(*                                                                         *)
(* Strings are sequences of UTF-16 code units (naturals), so that          *)
(* concatenated keys, prefix tests and the katakana conversion are         *)
(* computed the way the code computes them.  JavaScript objects and Maps   *)
(* are ordered maps: sequences of [k, v] in insertion order.               *)
(***************************************************************************)
EXTENDS Integers, Sequences, FiniteSets, TLC

VARIABLES
    dictIndex,       \* DataStore value under DICTIONARY_INDEX_KEY: name -> metadata
    buckets,         \* DataStore values under the bucket keys: key -> bucket
    dataStoreCache,  \* Map cacheKey -> [data, timestamp]
    searchCache,     \* Map text -> [results, timestamp]
    now,             \* Date.now()
    engine,          \* the rule engine behind getTransformer(): what transform does
    imported,        \* history: the [dictionary, term, reading] imported into the
                     \* dictionaries now installed
    last,            \* history: what the last operation did and returned
    tasks,           \* the asynchronous calls in progress, each at its await
    ui               \* the hover interface: flags, tooltips, containers, timers

vars ==
    <<dictIndex, buckets, dataStoreCache, searchCache, now, engine, imported, last, tasks, ui>>

----------------------------------------------------------------------------
(* Strings *)

Max(a, b) == IF a >= b THEN a ELSE b
Min(a, b) == IF a <= b THEN a ELSE b

\* s.startsWith(p)
StartsWith(s, p) == Len(p) <= Len(s) /\ SubSeq(s, 1, Len(p)) = p

\* s.substring(0, n)
Substring(s, n) == SubSeq(s, 1, Min(n, Len(s)))

\* s.indexOf(c) for a single code unit, 0-based, -1 when absent
IndexOf(s, c) ==
    IF \E i \in 1..Len(s) : s[i] = c
    THEN (CHOOSE i \in 1..Len(s) : s[i] = c /\ \A j \in 1..(i - 1) : s[j] # c) - 1
    ELSE -1

Underscore == <<95>>     \* "_"
Bar == <<124>>           \* "|"

\* "Yomicord_Dictionaries"
DICTIONARY_KEY ==
    <<89, 111, 109, 105, 99, 111, 114, 100, 95,
      68, 105, 99, 116, 105, 111, 110, 97, 114, 105, 101, 115>>

\* "Yomicord_Dictionary_Index"
DICTIONARY_INDEX_KEY ==
    <<89, 111, 109, 105, 99, 111, 114, 100, 95,
      68, 105, 99, 116, 105, 111, 110, 97, 114, 121, 95, 73, 110, 100, 101, 120>>

\* /[一-鿿]/.test(s)
IsKanji(c) == c >= 19968 /\ c <= 40959
HasKanji(s) == \E i \in 1..Len(s) : IsKanji(s[i])

\* The replace callback of convertKatakanaToHiragana: only 0x30A1..0x30F6 move,
\* by 0x60; the rest of the matched range 0x30A0..0x30FF is returned unchanged.
KatakanaCharToHiragana(c) == IF c >= 12449 /\ c <= 12534 THEN c - 96 ELSE c

convertKatakanaToHiragana(text) == [i \in 1..Len(text) |-> KatakanaCharToHiragana(text[i])]

RECURSIVE CommonLen(_, _, _)
CommonLen(str1, str2, i) ==
    IF i < Len(str1) /\ i < Len(str2) /\ str1[i + 1] = str2[i + 1]
    THEN CommonLen(str1, str2, i + 1)
    ELSE i

getCommonPrefix(str1, str2) == SubSeq(str1, 1, CommonLen(str1, str2, 0))

----------------------------------------------------------------------------
(* Ordered maps: a JavaScript object or Map as a sequence of [k, v] in     *)
(* insertion order (keys here are never integer-like, so own-key order is  *)
(* insertion order).                                                       *)

OmKeys(m) == [i \in 1..Len(m) |-> m[i].k]
OmHas(m, key) == \E i \in 1..Len(m) : m[i].k = key
OmGet(m, key) == m[CHOOSE i \in 1..Len(m) : m[i].k = key].v
\* m[key] = val / Map.set: an existing key keeps its position
OmPut(m, key, val) ==
    IF OmHas(m, key)
    THEN [i \in 1..Len(m) |-> IF m[i].k = key THEN [k |-> key, v |-> val] ELSE m[i]]
    ELSE Append(m, [k |-> key, v |-> val])
OmDelete(m, key) == SelectSeq(m, LAMBDA p : p.k # key)

----------------------------------------------------------------------------
(* Entry store: keys and reads *)

\* `${DICTIONARY_KEY}_${dictionaryName}_${firstChar}`
DataKey(dictionaryName, firstChar) ==
    DICTIONARY_KEY \o Underscore \o dictionaryName \o Underscore \o <<firstChar>>

\* `${dictionaryName}_${firstChar}`
CacheKey(dictionaryName, firstChar) == dictionaryName \o Underscore \o <<firstChar>>

\* DataStore.keys(): the index record is a key of the same store
StoreKeys == (IF dictIndex # <<>> THEN {DICTIONARY_INDEX_KEY} ELSE {}) \cup DOMAIN buckets

\* A value read from the store or the cache: def = FALSE is undefined
Undefined == [def |-> FALSE, val |-> <<>>]
Defined(b) == [def |-> TRUE, val |-> b]

\* await DataStore.get(dataKey)
StoreGet(dataKey) == IF dataKey \in DOMAIN buckets THEN Defined(buckets[dataKey]) ELSE Undefined

\* getDictionaryIndex: index || {}
getDictionaryIndex == dictIndex

Metadata(dictionaryName) == [title |-> dictionaryName, revision |-> "imported", sequenced |-> FALSE]

----------------------------------------------------------------------------
(* Import *)

\* `${entry.term}|${entry.reading}`
EntryKey(entry) == entry.term \o Bar \o entry.reading

\* A raw record is the part of the 8-tuple the code reads:
\* [term, reading, score, definitions]; reading may be empty.
\* dictEntry = { term, reading: reading || term, definitions, tags, score: score || 0 }
MakeEntry(raw) ==
    [term |-> raw.term,
     reading |-> IF raw.reading # <<>> THEN raw.reading ELSE raw.term,
     definitions |-> raw.definitions,
     score |-> raw.score]

\* grouped[firstChar][key].push(dictEntry), creating the levels on demand
GroupPush(grouped, firstChar, key, dictEntry) ==
    LET g == IF OmHas(grouped, firstChar) THEN OmGet(grouped, firstChar) ELSE <<>>
        l == IF OmHas(g, key) THEN OmGet(g, key) ELSE <<>>
    IN  OmPut(grouped, firstChar, OmPut(g, key, Append(l, dictEntry)))

\* The grouping loop of processTermBank
RECURSIVE GroupTerms(_, _, _)
GroupTerms(termBank, i, grouped) ==
    IF i > Len(termBank) THEN grouped
    ELSE LET raw == termBank[i]
             dictEntry == MakeEntry(raw)
             g1 == GroupPush(grouped, raw.term[1], raw.term, dictEntry)
             g2 == IF raw.reading # <<>> /\ raw.reading # raw.term
                   THEN GroupPush(g1, raw.reading[1], raw.reading, dictEntry)
                   ELSE g1
         IN  GroupTerms(termBank, i + 1, g2)

\* One pass of "add entries not seen yet": returns [seen, combined]
RECURSIVE AddUnseen(_, _, _)
AddUnseen(entries, i, acc) ==
    IF i > Len(entries) THEN acc
    ELSE LET entryKey == EntryKey(entries[i])
         IN  IF entryKey \in acc.seen
             THEN AddUnseen(entries, i + 1, acc)
             ELSE AddUnseen(entries, i + 1,
                            [seen |-> acc.seen \cup {entryKey},
                             combined |-> Append(acc.combined, entries[i])])

\* combined: the existing entries, then the new ones, each (term|reading) once
MergeEntries(existingEntries, newEntries) ==
    AddUnseen(newEntries, 1,
              AddUnseen(existingEntries, 1, [seen |-> {}, combined |-> <<>>])).combined

\* for (const term in grouped[firstChar]) { ... merged[term] = ... }
RECURSIVE MergeGroup(_, _, _)
MergeGroup(group, i, merged) ==
    IF i > Len(group) THEN merged
    ELSE LET term == group[i].k
         IN  MergeGroup(group, i + 1,
                 IF OmHas(merged, term)
                 THEN OmPut(merged, term, MergeEntries(OmGet(merged, term), group[i].v))
                 ELSE OmPut(merged, term, group[i].v))

\* The storing loop of processTermBank over Object.keys(grouped); bk is the
\* store's bucket map so far.
RECURSIVE StoreGroups(_, _, _, _)
StoreGroups(dictionaryName, grouped, i, bk) ==
    IF i > Len(grouped) THEN bk
    ELSE LET key == DataKey(dictionaryName, grouped[i].k)
             existing == IF key \in DOMAIN bk THEN bk[key] ELSE <<>>
             merged == MergeGroup(grouped[i].v, 1, existing)
         IN  StoreGroups(dictionaryName, grouped, i + 1,
                 [x \in (DOMAIN bk) \cup {key} |-> IF x = key THEN merged ELSE bk[x]])

processTermBank(dictionaryName, termBank, bk) ==
    StoreGroups(dictionaryName, GroupTerms(termBank, 1, <<>>), 1, bk)

\* The index update of importDictionaryJSON
RegisterDictionary(index, dictionaryName) ==
    IF OmHas(index, dictionaryName) THEN index
    ELSE OmPut(index, dictionaryName, Metadata(dictionaryName))

----------------------------------------------------------------------------
(* Delete and orphan maintenance *)

\* allKeys.filter(key => key.startsWith(`${DICTIONARY_KEY}_${dictionaryName}_`))
KeysToDelete(dictionaryName, allKeys) ==
    {key \in allKeys :
        StartsWith(key, DICTIONARY_KEY \o Underscore \o dictionaryName \o Underscore)}

\* findOrphanedDictionaryKeys against an index and a key set
OrphanedKeys(index, allKeys) ==
    LET prefix == DICTIONARY_KEY \o Underscore
        dictKeys == {key \in allKeys : StartsWith(key, prefix)}
        afterPrefix(key) == SubSeq(key, Len(prefix) + 1, Len(key))
        underscoreIndex(key) == IndexOf(afterPrefix(key), 95)
        dictName(key) == SubSeq(afterPrefix(key), 1, underscoreIndex(key))
    IN  {key \in dictKeys :
            /\ underscoreIndex(key) # -1
            /\ ~OmHas(index, dictName(key))}

findOrphanedDictionaryKeys == OrphanedKeys(getDictionaryIndex, StoreKeys)

----------------------------------------------------------------------------
(* Deinflection.  The rule engine (LanguageTransformer and its rule       *)
(* table) is consumed through transform(text) -> results with a text      *)
(* field; a small suffix table stands for it.                             *)

\* [from, to]: "ます" -> "る", "った" -> "る"
DeinflectionRules ==
    << [from |-> <<12414, 12377>>, to |-> <<12427>>],
       [from |-> <<12387, 12383>>, to |-> <<12427>>] >>

EndsWith(s, suffix) ==
    Len(suffix) <= Len(s) /\ SubSeq(s, Len(s) - Len(suffix) + 1, Len(s)) = suffix

\* transformer.transform(text): the text itself, then one result per rule that applies
Transform(text) ==
    LET applies == SelectSeq(DeinflectionRules,
                             LAMBDA r : EndsWith(text, r.from) /\ Len(text) > Len(r.from))
    IN  <<[text |-> text]>> \o
        [i \in 1..Len(applies) |->
            [text |-> SubSeq(text, 1, Len(text) - Len(applies[i].from)) \o applies[i].to]]

RECURSIVE PushDistinct(_, _, _)
PushDistinct(items, i, acc) ==
    IF i > Len(items) THEN acc
    ELSE PushDistinct(items, i + 1,
            IF \E j \in 1..Len(acc) : acc[j] = items[i] THEN acc ELSE Append(acc, items[i]))

\* A rule table that also knows the continuative stem of a one-step verb: the results
\* of the suffix table, then the text with "る" appended (見せ -> 見せる, 見 -> 見る)
StemTransform(text) == Append(Transform(text), [text |-> Append(text, 12427)])

\* The engine as the code sees it.  mode "rules": transform follows the rule table;
\* mode "stems": the rule table with the stem rule; mode "results": transform returns
\* the given results whatever the text; mode "throws": getTransformer() or transform
\* throws.
RuleEngine == [mode |-> "rules", results |-> <<>>]
StemEngine == [mode |-> "stems", results |-> <<>>]
ThrowingEngine == [mode |-> "throws", results |-> <<>>]
ResultsEngine(results) == [mode |-> "results", results |-> results]

\* transformer.transform(text) when it returns
transform(text) ==
    IF engine.mode = "rules" THEN Transform(text)
    ELSE IF engine.mode = "stems" THEN StemTransform(text)
    ELSE engine.results

\* Candidates that keep every result of the engine
CandidatesUnfiltered(text) ==
    <<text>> \o [i \in 1..Len(transform(text)) |-> transform(text)[i].text]

\* candidates = [text]; then, inside try, every result.text that is not text and not
\* yet included; a throw of the engine is caught and leaves candidates as it is
getDeinflectionCandidates(text) ==
    IF engine.mode = "throws" THEN <<text>>
    ELSE PushDistinct([i \in 1..Len(transform(text)) |-> transform(text)[i].text], 1, <<text>>)

----------------------------------------------------------------------------
(* Bucket cache (dataStoreCache) and getDataStoreData *)

CACHE_TTL == 5000
MAX_CACHE_SIZE == 100
DATASTORE_CACHE_TTL == 10000
DATASTORE_CACHE_MAX == 50

\* A freshness test that also passes at the full DATASTORE_CACHE_TTL
CacheHitAtLimit(cache, cacheKey) ==
    OmHas(cache, cacheKey) /\ now - OmGet(cache, cacheKey).timestamp <= DATASTORE_CACHE_TTL

\* cached && Date.now() - cached.timestamp < DATASTORE_CACHE_TTL
CacheHit(cache, cacheKey) ==
    OmHas(cache, cacheKey) /\ now - OmGet(cache, cacheKey).timestamp < DATASTORE_CACHE_TTL

\* An eviction that deletes the last key
DropNewest(cache) ==
    IF Len(cache) > DATASTORE_CACHE_MAX THEN SubSeq(cache, 1, Len(cache) - 1) ELSE cache

\* dataStoreCache.set(cacheKey, {data, timestamp}); if size > 50, delete the first key
DropOldest(cache) == IF Len(cache) > DATASTORE_CACHE_MAX THEN Tail(cache) ELSE cache
CacheStore(cache, cacheKey, data) ==
    DropOldest(OmPut(cache, cacheKey, [data |-> data, timestamp |-> now]))

\* The state a lookup threads through its awaits:
\*   rwl = resultsWithLength, seen, kts = kanjiTermsSearched, maxLen =
\*   maxOriginalTextLength, found = foundAtThisLength, cache = dataStoreCache,
\*   reads = DataStore.get calls issued so far, failAt = the number of the get that
\*   rejects (0: none), failed = a get has rejected, failedKey = the key it was for.
\* A lookup that is followed from await to await (mode "step") also carries
\*   skip = the number of awaited groups of getDataStoreData calls that had settled
\*   before this step, answers = what each settled group returned, ngroups = the
\*   groups reached in this step, pend = the group the lookup is suspended at: which
\*   of its calls returned from the cache when they were issued, and with what.
NoPend == [on |-> FALSE, hits |-> <<>>, data |-> <<>>]

NewLookupState(failAt) ==
    [rwl |-> <<>>, seen |-> {}, kts |-> {}, maxLen |-> 0, found |-> FALSE,
     cache |-> dataStoreCache, reads |-> 0, failAt |-> failAt, failed |-> FALSE,
     failedKey |-> <<>>, mode |-> "batch", skip |-> 0, answers |-> <<>>, ngroups |-> 0,
     pend |-> NoPend]

\* A get whose rejection is taken for a missing bucket
CompleteGetSwallowing(S, dictionaryName, firstChar) ==
    [S EXCEPT !.reads = @ + 1,
              !.cache = CacheStore(@, CacheKey(dictionaryName, firstChar),
                                   IF S.reads + 1 = S.failAt THEN Undefined
                                   ELSE StoreGet(DataKey(dictionaryName, firstChar)))]

\* The part of getDataStoreData after a cache miss: the awaited DataStore.get and,
\* when it resolves, the cache write.  A rejected get writes nothing.
CompleteGet(S, dictionaryName, firstChar) ==
    IF S.reads + 1 = S.failAt
    THEN [S EXCEPT !.reads = @ + 1, !.failed = TRUE,
                   !.failedKey = CacheKey(dictionaryName, firstChar)]
    ELSE [S EXCEPT !.reads = @ + 1,
                   !.cache = CacheStore(@, CacheKey(dictionaryName, firstChar),
                                        StoreGet(DataKey(dictionaryName, firstChar)))]

\* Promise.all over getDataStoreData calls started together: every call checks the
\* cache before any get resolves; the misses then resolve in issue order, and the
\* calls after a rejected one still complete and write the cache.
\* reqs is a sequence of <<dictionaryName, firstChar>>.
RECURSIVE CompleteGets(_, _, _, _)
CompleteGets(S, reqs, hits, i) ==
    IF i > Len(reqs) THEN S
    ELSE CompleteGets(IF hits[i] THEN S ELSE CompleteGet(S, reqs[i][1], reqs[i][2]),
                      reqs, hits, i + 1)

CacheHits(S, reqs) ==
    [i \in 1..Len(reqs) |-> CacheHit(S.cache, CacheKey(reqs[i][1], reqs[i][2]))]

ResolveAll(S, reqs, hits) ==
    [st |-> CompleteGets(S, reqs, hits, 1),
     data |-> [i \in 1..Len(reqs) |->
                 IF hits[i] THEN OmGet(S.cache, CacheKey(reqs[i][1], reqs[i][2])).data
                 ELSE StoreGet(DataKey(reqs[i][1], reqs[i][2]))]]

\* What the calls that hit the cache return
HitData(S, reqs, hits) ==
    [i \in 1..Len(reqs) |->
        IF hits[i] THEN OmGet(S.cache, CacheKey(reqs[i][1], reqs[i][2])).data ELSE Undefined]

Settled(S, data) == [S EXCEPT !.ngroups = @ + 1, !.answers = Append(@, data)]

\* The group the lookup was suspended at settles: its gets resolve and write the cache
ResumeAll(S, reqs) ==
    [st |-> Settled([CompleteGets(S, reqs, S.pend.hits, 1) EXCEPT !.pend = NoPend],
                    [i \in 1..Len(reqs) |->
                        IF S.pend.hits[i] THEN S.pend.data[i]
                        ELSE StoreGet(DataKey(reqs[i][1], reqs[i][2]))]),
     data |-> [i \in 1..Len(reqs) |->
                 IF S.pend.hits[i] THEN S.pend.data[i]
                 ELSE StoreGet(DataKey(reqs[i][1], reqs[i][2]))]]

\* A group whose calls that miss the cache are not awaited
IssueUnawaited(S, reqs, hits) ==
    [st |-> Settled(S, HitData(S, reqs, hits)), data |-> HitData(S, reqs, hits)]

\* A group issued now: when every call hits the cache the lookup goes on, otherwise it
\* is suspended at the group (failed stops the step as a rejection stops the lookup)
IssueAll(S, reqs, hits) ==
    IF \A i \in 1..Len(reqs) : hits[i]
    THEN [st |-> Settled(S, HitData(S, reqs, hits)), data |-> HitData(S, reqs, hits)]
    ELSE [st |-> [S EXCEPT !.failed = TRUE,
                           !.pend = [on |-> TRUE, hits |-> hits,
                                     data |-> HitData(S, reqs, hits)]],
          data |-> HitData(S, reqs, hits)]

\* One step of a lookup followed from await to await: the groups settled before the
\* step return what they returned then, the pending group settles, later groups are
\* issued against the cache as it is now
StepAll(S, reqs) ==
    IF S.failed THEN [st |-> S, data |-> [i \in 1..Len(reqs) |-> Undefined]]
    ELSE IF S.ngroups < S.skip
    THEN [st |-> [S EXCEPT !.ngroups = @ + 1], data |-> S.answers[S.ngroups + 1]]
    ELSE IF S.pend.on THEN ResumeAll(S, reqs)
    ELSE IssueAll(S, reqs, CacheHits(S, reqs))

getDataStoreDataAll(S, reqs) ==
    IF S.mode = "step" THEN StepAll(S, reqs) ELSE ResolveAll(S, reqs, CacheHits(S, reqs))

\* One awaited getDataStoreData call
FirstOf(r) == [st |-> r.st, data |-> r.data[1]]
getDataStoreData(S, dictionaryName, firstChar) ==
    FirstOf(getDataStoreDataAll(S, << <<dictionaryName, firstChar>> >>))

----------------------------------------------------------------------------
(* searchInDictionary(dictionaryName, term, 'exact') *)

\* What the exact branch makes of the bucket it read
ExactEntries(data, term) ==
    IF ~data.def \/ ~OmHas(data.val, term) THEN <<>>
    ELSE AddUnseen(SelectSeq(OmGet(data.val, term),
                             LAMBDA e : e.term = term \/ (e.reading # <<>> /\ e.reading = term)),
                   1, [seen |-> {}, combined |-> <<>>]).combined

ExactBranch(r, term) == [st |-> r.st, entries |-> ExactEntries(r.data, term)]
searchInDictionary(S, dictionaryName, term) ==
    IF Len(term) = 0 THEN [st |-> S, entries |-> <<>>]
    ELSE ExactBranch(getDataStoreData(S, dictionaryName, term[1]), term)

\* dictNames.map(dictName => searchInDictionary(dictName, term(job), 'exact')) under
\* Promise.all; jobs is a sequence of [dictName, term], none with an empty term.
ExactBranchAll(r, jobs) ==
    [st |-> r.st,
     results |-> [i \in 1..Len(jobs) |->
                    [dictName |-> jobs[i].dictName,
                     term |-> jobs[i].term,
                     entries |-> ExactEntries(r.data[i], jobs[i].term)]]]
searchInDictionaryAll(S, jobs) ==
    ExactBranchAll(
        getDataStoreDataAll(S, [i \in 1..Len(jobs) |-> <<jobs[i].dictName, jobs[i].term[1]>>]),
        jobs)

\* findAllReadingsForTerm: the exact search, filtered to entry.term === term
WithTerm(r, term) == [st |-> r.st, entries |-> SelectSeq(r.entries, LAMBDA e : e.term = term)]
findAllReadingsForTerm(S, dictionaryName, term) ==
    WithTerm(searchInDictionary(S, dictionaryName, term), term)

----------------------------------------------------------------------------
(* lookupTerm: the progressive substring loop *)

\* `${dictName}|${entry.term}|${entry.reading}`
SeenKey(dictName, entry) == dictName \o Bar \o entry.term \o Bar \o entry.reading

\* { ...entry, dictionary: dictName }
WithDictionary(entry, dictName) ==
    [term |-> entry.term, reading |-> entry.reading, definitions |-> entry.definitions,
     score |-> entry.score, dictionary |-> dictName]

\* A push that records the match and leaves the seen set as it is
PushUnseen(S, dictName, entry, originalTextLength, fromDeinflection, readingExactMatch) ==
    [S EXCEPT !.rwl = Append(@, [entry |-> WithDictionary(entry, dictName),
                                 originalTextLength |-> originalTextLength,
                                 fromDeinflection |-> fromDeinflection,
                                 readingExactMatch |-> readingExactMatch]),
              !.maxLen = Max(@, originalTextLength)]

\* resultsWithLength.push(...); seen.add(key); maxOriginalTextLength = Math.max(...)
PushResult(S, dictName, entry, originalTextLength, fromDeinflection, readingExactMatch) ==
    [S EXCEPT !.rwl = Append(@, [entry |-> WithDictionary(entry, dictName),
                                 originalTextLength |-> originalTextLength,
                                 fromDeinflection |-> fromDeinflection,
                                 readingExactMatch |-> readingExactMatch]),
              !.seen = @ \cup {SeenKey(dictName, entry)},
              !.maxLen = Max(@, originalTextLength)]

\* The inner loop of searchAllReadingsForTerm over allReadings
RECURSIVE AllReadingsEntries(_, _, _, _, _, _)
AllReadingsEntries(S, text, dictName, allReadings, i, originalTextLength) ==
    IF i > Len(allReadings) THEN S
    ELSE AllReadingsEntries(
             IF SeenKey(dictName, allReadings[i]) \in S.seen THEN S
             ELSE PushResult(S, dictName, allReadings[i], originalTextLength, FALSE,
                             /\ allReadings[i].reading # <<>>
                             /\ Len(allReadings[i].reading) = originalTextLength
                             /\ Substring(text, originalTextLength) = allReadings[i].reading),
             text, dictName, allReadings, i + 1, originalTextLength)

\* for (const entry of allReadings) on what findAllReadingsForTerm returned
AllReadingsOf(r, text, dictName, originalTextLength) ==
    IF r.st.failed THEN r.st
    ELSE AllReadingsEntries(r.st, text, dictName, r.entries, 1, originalTextLength)

\* for (const dictName in index) { allReadings = await findAllReadingsForTerm(...) ... }
RECURSIVE AllReadingsDicts(_, _, _, _, _, _)
AllReadingsDicts(S, text, dictNames, j, kanjiTerm, originalTextLength) ==
    IF j > Len(dictNames) \/ S.failed THEN S
    ELSE AllReadingsDicts(
             AllReadingsOf(findAllReadingsForTerm(S, dictNames[j], kanjiTerm),
                           text, dictNames[j], originalTextLength),
             text, dictNames, j + 1, kanjiTerm, originalTextLength)

\* An expansion that records nothing
SkipAllReadings(S, text, dictNames, kanjiTerm, originalTextLength) == S

searchAllReadingsForTerm(S, text, dictNames, kanjiTerm, originalTextLength) ==
    IF kanjiTerm \in S.kts THEN S
    ELSE AllReadingsDicts([S EXCEPT !.kts = @ \cup {kanjiTerm}],
                          text, dictNames, 1, kanjiTerm, originalTextLength)

\* The context of one pass of the substring loop:
\*   C = [text, dictNames, hasKanji, originalTextLength, searchText,
\*        searchTextHiragana, searchVariants]
ContextOf(text, dictNames, originalTextLength, searchText, searchTextHiragana) ==
    [text |-> text, dictNames |-> dictNames, hasKanji |-> HasKanji(text),
     originalTextLength |-> originalTextLength,
     searchText |-> searchText,
     searchTextHiragana |-> searchTextHiragana,
     searchVariants |-> IF searchText # searchTextHiragana
                        THEN <<searchText, searchTextHiragana>>
                        ELSE <<searchText>>]
SubstringContext(text, dictNames, originalTextLength) ==
    ContextOf(text, dictNames, originalTextLength, Substring(text, originalTextLength),
              convertKatakanaToHiragana(Substring(text, originalTextLength)))

\* termExactMatch || readingExactMatch of the exact pass
IsExactMatch(C, entry) ==
    \/ entry.reading # <<>> /\ (entry.reading = C.searchText \/ entry.reading = C.searchTextHiragana)
    \/ entry.term = C.searchText \/ entry.term = C.searchTextHiragana

\* Whether the exact pass accepts an entry searchInDictionary returned for variant
ExactAccepts(entry, variant) ==
    IF HasKanji(entry.term)
    THEN \/ entry.term = variant
         \/ entry.reading # <<>> /\ (entry.reading = variant \/ StartsWith(entry.reading, variant))
    ELSE \/ entry.term = variant
         \/ StartsWith(entry.term, variant) /\ Len(entry.term) >= Len(variant)

\* for (const entry of entries) of the exact pass
RECURSIVE ExactPassEntries(_, _, _, _, _, _)
ExactPassEntries(S, C, dictName, variant, entries, i) ==
    IF i > Len(entries) \/ S.failed THEN S
    ELSE LET entry == entries[i]
             S1 == [PushResult(S, dictName, entry, C.originalTextLength, FALSE,
                               IsExactMatch(C, entry))
                    EXCEPT !.found = TRUE]
             S2 == IF ~ExactAccepts(entry, variant) \/ SeenKey(dictName, entry) \in S.seen
                   THEN S
                   ELSE IF HasKanji(entry.term) /\ C.hasKanji
                        THEN searchAllReadingsForTerm(S1, C.text, C.dictNames, entry.term,
                                                      C.originalTextLength)
                        ELSE S1
         IN  ExactPassEntries(S2, C, dictName, variant, entries, i + 1)

\* for (const { dictName, entries, variant } of exactResults)
RECURSIVE ExactPassResults(_, _, _, _)
ExactPassResults(S, C, exactResults, j) ==
    IF j > Len(exactResults) \/ S.failed THEN S
    ELSE ExactPassResults(
             ExactPassEntries(S, C, exactResults[j].dictName, exactResults[j].term,
                              exactResults[j].entries, 1),
             C, exactResults, j + 1)

\* searchVariants.flatMap(variant => dictNames.map(dictName => ...))
ExactJobs(C) ==
    [n \in 1..(Len(C.searchVariants) * Len(C.dictNames)) |->
        [dictName |-> C.dictNames[((n - 1) % Len(C.dictNames)) + 1],
         term |-> C.searchVariants[((n - 1) \div Len(C.dictNames)) + 1]]]

ExactPassOn(r, C) == IF r.st.failed THEN r.st ELSE ExactPassResults(r.st, C, r.results, 1)
ExactPass(S, C) == ExactPassOn(searchInDictionaryAll(S, ExactJobs(C)), C)

\* A loop that never skips the deinflection pass
NeverSkipDeinflections(S, C) == FALSE

\* shouldSkipDeinflections
ShouldSkipDeinflections(S, C) ==
    /\ C.originalTextLength >= 4
    /\ S.found
    /\ \E n \in 1..Len(S.rwl) :
          /\ S.rwl[n].originalTextLength = C.originalTextLength
          /\ S.rwl[n].readingExactMatch
          /\ ~S.rwl[n].fromDeinflection

\* for (const entry of entries) of the deinflection pass
RECURSIVE DeinflectPassEntries(_, _, _, _, _, _)
DeinflectPassEntries(S, C, dictName, deinflected, entries, i) ==
    IF i > Len(entries) \/ S.failed THEN S
    ELSE LET entry == entries[i]
             termMatches == entry.term = deinflected
             readingMatches == entry.reading # <<>> /\ entry.reading = deinflected
             S1 == [PushResult(S, dictName, entry, C.originalTextLength, TRUE, readingMatches)
                    EXCEPT !.found = TRUE]
             S2 == IF (~termMatches /\ ~readingMatches) \/ SeenKey(dictName, entry) \in S.seen
                   THEN S
                   ELSE IF C.hasKanji /\ HasKanji(entry.term)
                           /\ (entry.term = deinflected \/ entry.reading = deinflected)
                        THEN searchAllReadingsForTerm(S1, C.text, C.dictNames, entry.term,
                                                      C.originalTextLength)
                        ELSE S1
         IN  DeinflectPassEntries(S2, C, dictName, deinflected, entries, i + 1)

\* for (const { dictName, entries } of deinflectResults)
RECURSIVE DeinflectPassResults(_, _, _, _)
DeinflectPassResults(S, C, deinflectResults, j) ==
    IF j > Len(deinflectResults) \/ S.failed THEN S
    ELSE DeinflectPassResults(
             DeinflectPassEntries(S, C, deinflectResults[j].dictName, deinflectResults[j].term,
                                  deinflectResults[j].entries, 1),
             C, deinflectResults, j + 1)

\* allDeinflections: the candidates of every variant, a Set in insertion order
RECURSIVE AllDeinflections(_, _, _)
AllDeinflections(searchVariants, v, acc) ==
    IF v > Len(searchVariants) THEN acc
    ELSE AllDeinflections(searchVariants, v + 1,
                          PushDistinct(getDeinflectionCandidates(searchVariants[v]), 1, acc))

DeinflectPassOn(r, C) ==
    IF r.st.failed THEN r.st ELSE DeinflectPassResults(r.st, C, r.results, 1)

\* for (const deinflected of deinflections): a candidate that is a variant is skipped
RECURSIVE DeinflectPassCandidates(_, _, _, _)
DeinflectPassCandidates(S, C, deinflections, n) ==
    IF n > Len(deinflections) \/ S.failed THEN S
    ELSE DeinflectPassCandidates(
             IF (\E v \in 1..Len(C.searchVariants) : C.searchVariants[v] = deinflections[n])
                \/ Len(deinflections[n]) = 0
             THEN S
             ELSE DeinflectPassOn(
                      searchInDictionaryAll(S,
                          [j \in 1..Len(C.dictNames) |->
                              [dictName |-> C.dictNames[j], term |-> deinflections[n]]]),
                      C),
             C, deinflections, n + 1)

DeinflectPass(S, C) ==
    DeinflectPassCandidates(S, C, AllDeinflections(C.searchVariants, 1, <<>>), 1)

\* if (!shouldSkipDeinflections) { the deinflection pass }
AfterExactPass(S1, C) ==
    IF S1.failed \/ ShouldSkipDeinflections(S1, C) THEN S1 ELSE DeinflectPass(S1, C)

\* for (let originalTextLength = text.length; originalTextLength > 0; originalTextLength--)
RECURSIVE SubstringLoop(_, _, _, _)

\* if (originalTextLength <= 2 && maxOriginalTextLength >= 3) break; else the next length
EarlyTermination(S2, text, dictNames, originalTextLength) ==
    IF S2.failed THEN S2
    ELSE IF originalTextLength <= 2 /\ S2.maxLen >= 3 THEN S2
    ELSE SubstringLoop(S2, text, dictNames, originalTextLength - 1)

SubstringLoop(S, text, dictNames, originalTextLength) ==
    IF originalTextLength <= 0 \/ S.failed THEN S
    ELSE EarlyTermination(
             AfterExactPass(
                 ExactPass([S EXCEPT !.found = FALSE],
                           SubstringContext(text, dictNames, originalTextLength)),
                 SubstringContext(text, dictNames, originalTextLength)),
             text, dictNames, originalTextLength)

----------------------------------------------------------------------------
(* Array.prototype.sort with a comparator: a stable insertion sort.  cmp is *)
(* the comparator tabulated on the indices of the array; the result is the  *)
(* sorted sequence of indices.                                              *)

RECURSIVE InsertPos(_, _, _, _)
InsertPos(order, x, cmp, j) ==
    IF j >= 1 /\ cmp[order[j], x] > 0 THEN InsertPos(order, x, cmp, j - 1) ELSE j

RECURSIVE SortIndices(_, _, _, _)
SortIndices(n, cmp, i, order) ==
    IF i > n THEN order
    ELSE LET p == InsertPos(order, i, cmp, Len(order))
         IN  SortIndices(n, cmp, i + 1,
                         SubSeq(order, 1, p) \o <<i>> \o SubSeq(order, p + 1, Len(order)))

\* results.sort((a, b) => (b.score || 0) - (a.score || 0))
SortByScore(results) ==
    LET cmp == [i \in 1..Len(results), j \in 1..Len(results) |->
                   results[j].score - results[i].score]
        order == SortIndices(Len(results), cmp, 1, <<>>)
    IN  [n \in 1..Len(results) |-> results[order[n]]]

----------------------------------------------------------------------------
(* lookupTerm: filtering and ranking *)

\* The entries of the matches at one length, in recorded order, that satisfy keep
MatchesAtLength(rwl, length) == SelectSeq(rwl, LAMBDA r : r.originalTextLength = length)

\* for (const length of allExactMatchLengths): exact matches first, then inexact ones
RECURSIVE ExactLengthsResults(_, _, _)
ExactLengthsResults(rwl, length, results) ==
    IF length < 1 THEN results
    ELSE LET atLength == MatchesAtLength(rwl, length)
             hasExactHere == \E n \in 1..Len(atLength) : atLength[n].readingExactMatch
         IN  ExactLengthsResults(rwl, length - 1,
                 IF hasExactHere
                 THEN results \o SelectSeq(atLength, LAMBDA r : r.readingExactMatch)
                              \o SelectSeq(atLength, LAMBDA r : ~r.readingExactMatch)
                 ELSE results)

\* for (const length of meaningfulLengths)
RECURSIVE PrefixLengthsResults(_, _, _, _)
PrefixLengthsResults(rwl, length, dropSingle, results) ==
    IF length < 1 THEN results
    ELSE PrefixLengthsResults(rwl, length - 1, dropSingle,
             IF length = 1 /\ dropSingle THEN results
             ELSE results \o MatchesAtLength(rwl, length))

\* A filter that keeps the matches of the longest prefix only
FilterKeepLongest(rwl, text) ==
    MatchesAtLength(rwl, CHOOSE l \in {rwl[n].originalTextLength : n \in 1..Len(rwl)} :
                             \A m \in 1..Len(rwl) : rwl[m].originalTextLength <= l)

\* A filter that never drops the matches of length 1
FilterKeepSingle(rwl, text) ==
    IF \E n \in 1..Len(rwl) : rwl[n].readingExactMatch
    THEN ExactLengthsResults(rwl, Len(text), <<>>)
    ELSE PrefixLengthsResults(rwl, Len(text), FALSE, <<>>)

\* The matches kept by the filter, in the order they are pushed to results
FilterResults(rwl, text) ==
    LET lengths == {rwl[n].originalTextLength : n \in 1..Len(rwl)}
        longest == CHOOSE l \in lengths : \A m \in lengths : m <= l
    IN  IF \E n \in 1..Len(rwl) : rwl[n].readingExactMatch
        THEN ExactLengthsResults(rwl, Len(text), <<>>)
        ELSE PrefixLengthsResults(rwl, Len(text),
                                  Cardinality(lengths) > 1 /\ longest > 1, <<>>)

\* resultsWithInfo: each kept entry with the tags of the first recorded match that
\* has its term and reading
ResultInfo(rwl, entry) ==
    LET hit == {n \in 1..Len(rwl) :
                   rwl[n].entry.term = entry.term /\ rwl[n].entry.reading = entry.reading}
        first == CHOOSE n \in hit : \A m \in hit : n <= m
    IN  IF hit = {}
        THEN [entry |-> entry, originalTextLength |-> 0, fromDeinflection |-> FALSE,
              readingExactMatch |-> FALSE]
        ELSE [entry |-> entry, originalTextLength |-> rwl[first].originalTextLength,
              fromDeinflection |-> rwl[first].fromDeinflection,
              readingExactMatch |-> rwl[first].readingExactMatch]

\* A comparator that ranks by score alone
CompareByScore(a, b, text) == b.entry.score - a.entry.score

\* The comparator of resultsWithInfo.sort
Compare(a, b, text) ==
    LET aHasReading == a.entry.reading # <<>> /\ a.entry.reading # a.entry.term
        bHasReading == b.entry.reading # <<>> /\ b.entry.reading # b.entry.term
        searchSubstring == Substring(text, a.originalTextLength)
        aReadingExact == a.entry.reading # <<>> /\ a.entry.reading = searchSubstring
        bReadingExact == b.entry.reading # <<>> /\ b.entry.reading = searchSubstring
    IN  IF a.readingExactMatch /\ ~b.readingExactMatch THEN -1
        ELSE IF ~a.readingExactMatch /\ b.readingExactMatch THEN 1
        ELSE IF a.originalTextLength # b.originalTextLength
             THEN b.originalTextLength - a.originalTextLength
        ELSE IF aHasReading /\ ~bHasReading THEN -1
        ELSE IF ~aHasReading /\ bHasReading THEN 1
        ELSE IF a.fromDeinflection /\ ~b.fromDeinflection THEN -1
        ELSE IF ~a.fromDeinflection /\ b.fromDeinflection THEN 1
        ELSE IF /\ a.entry.reading # <<>> /\ b.entry.reading # <<>>
                /\ a.entry.reading = b.entry.reading
                /\ Len(a.entry.term) # Len(b.entry.term)
             THEN Len(a.entry.term) - Len(b.entry.term)
        ELSE IF aReadingExact /\ ~bReadingExact THEN -1
        ELSE IF ~aReadingExact /\ bReadingExact THEN 1
        ELSE b.entry.score - a.entry.score

\* The main path's returned list: filter, attach the tags, sort, extract the entries
Reorder(info, order) == [n \in 1..Len(info) |-> info[order[n]].entry]
SortInfo(info, text) ==
    Reorder(info,
            SortIndices(Len(info),
                        [i \in 1..Len(info), j \in 1..Len(info) |->
                            Compare(info[i], info[j], text)],
                        1, <<>>))
WithInfo(rwl, kept) == [n \in 1..Len(kept) |-> ResultInfo(rwl, kept[n].entry)]
RankResults(rwl, text) == SortInfo(WithInfo(rwl, FilterResults(rwl, text)), text)

----------------------------------------------------------------------------
(* searchByPartialReading and the fallback of lookupTerm *)

\* for (const indexKey in data) for (const entry of entries): the entries in visit order
RECURSIVE BucketEntries(_, _)
BucketEntries(bucket, i) ==
    IF i > Len(bucket) THEN <<>> ELSE bucket[i].v \o BucketEntries(bucket, i + 1)

\* The scan of one bucket for one prefix; acc = [results, seen]
RECURSIVE PartialScan(_, _, _, _, _)
PartialScan(entries, i, prefix, minMatchLength, acc) ==
    IF i > Len(entries) THEN acc
    ELSE LET entry == entries[i]
             commonPrefix == getCommonPrefix(prefix, convertKatakanaToHiragana(entry.reading))
         IN  PartialScan(entries, i + 1, prefix, minMatchLength,
                 IF EntryKey(entry) \notin acc.seen /\ Len(commonPrefix) >= minMatchLength
                 THEN [results |-> Append(acc.results,
                                          [entry |-> entry,
                                           score |-> Len(commonPrefix) * 1000 + Len(prefix)]),
                       seen |-> acc.seen \cup {EntryKey(entry)}]
                 ELSE acc)

\* for (let prefixLength = searchReading.length; prefixLength >= minMatchLength; prefixLength--)
RECURSIVE PartialPrefixes(_, _, _, _, _, _)

\* The body of that loop once the bucket of prefix[0], which is searchReading[0], has
\* been read (r)
ScanPrefix(r, dictionaryName, searchReading, prefixLength, minMatchLength, acc) ==
    PartialPrefixes(r.st, dictionaryName, searchReading, prefixLength - 1, minMatchLength,
        IF r.st.failed \/ ~r.data.def THEN acc
        ELSE PartialScan(BucketEntries(r.data.val, 1), 1,
                         Substring(searchReading, prefixLength), minMatchLength, acc))

PartialPrefixes(S, dictionaryName, searchReading, prefixLength, minMatchLength, acc) ==
    IF prefixLength < minMatchLength \/ S.failed THEN [st |-> S, acc |-> acc]
    ELSE ScanPrefix(getDataStoreData(S, dictionaryName, searchReading[1]),
                    dictionaryName, searchReading, prefixLength, minMatchLength, acc)

EntriesOf(sorted) == [n \in 1..Len(sorted) |-> sorted[n].entry]
SortedMatches(r) == [st |-> r.st, entries |-> EntriesOf(SortByScore(r.acc.results))]
PartialReadingOf(S, dictionaryName, searchReading, minMatchLength) ==
    IF Len(searchReading) < minMatchLength THEN [st |-> S, entries |-> <<>>]
    ELSE SortedMatches(
             PartialPrefixes(S, dictionaryName, searchReading, Len(searchReading),
                             minMatchLength, [results |-> <<>>, seen |-> {}]))
searchByPartialReading(S, dictionaryName, searchTerm, minMatchLength) ==
    PartialReadingOf(S, dictionaryName, convertKatakanaToHiragana(searchTerm), minMatchLength)

\* A fallback pass threads the lookup state and the results array: F = [st, results]
\* for (const entry of partialMatches)
RECURSIVE FallbackEntries(_, _, _, _, _, _)
FallbackEntries(F, text, dictNames, dictName, partialMatches, i) ==
    IF i > Len(partialMatches) \/ F.st.failed THEN F
    ELSE LET entry == partialMatches[i]
             readingMatches ==
                 /\ entry.reading # <<>>
                 /\ \/ entry.reading = text
                    \/ StartsWith(entry.reading, text)
                    \/ StartsWith(text, entry.reading)
             S1 == [F.st EXCEPT !.seen = @ \cup {SeenKey(dictName, entry)}]
             F2 == IF SeenKey(dictName, entry) \in F.st.seen \/ ~readingMatches THEN F
                   ELSE [st |-> IF HasKanji(text) /\ HasKanji(entry.term)
                                THEN searchAllReadingsForTerm(S1, text, dictNames, entry.term,
                                                              Len(text))
                                ELSE S1,
                         results |-> Append(F.results, WithDictionary(entry, dictName))]
         IN  FallbackEntries(F2, text, dictNames, dictName, partialMatches, i + 1)

FallbackOn(r, results, text, dictNames, dictName) ==
    IF r.st.failed THEN [st |-> r.st, results |-> results]
    ELSE FallbackEntries([st |-> r.st, results |-> results], text, dictNames, dictName,
                         r.entries, 1)

\* for (const dictName in index) { partialMatches = await searchByPartialReading(...) ... }
RECURSIVE FallbackDicts(_, _, _, _)
FallbackDicts(F, text, dictNames, j) ==
    IF j > Len(dictNames) \/ F.st.failed THEN F
    ELSE FallbackDicts(
             FallbackOn(searchByPartialReading(F.st, dictNames[j], text, 2), F.results, text,
                        dictNames, dictNames[j]),
             text, dictNames, j + 1)

----------------------------------------------------------------------------
(* lookupTerm as a whole *)

\* cached && Date.now() - cached.timestamp < CACHE_TTL
SearchCacheHit(text) ==
    OmHas(searchCache, text) /\ now - OmGet(searchCache, text).timestamp < CACHE_TTL

\* A store that drops nothing
StoreWithoutEviction(cache, cacheKey, results) ==
    OmPut(cache, cacheKey, [results |-> results, timestamp |-> now])

\* if (searchCache.size >= MAX_CACHE_SIZE) delete the oldest key; then set
SearchCacheStore(cache, cacheKey, results) ==
    OmPut(IF Len(cache) >= MAX_CACHE_SIZE THEN Tail(cache) ELSE cache,
          cacheKey, [results |-> results, timestamp |-> now])

\* The state after `await getDictionaryIndex()`: the first DataStore.get of a lookup
AfterIndexRead(failAt) ==
    [NewLookupState(failAt) EXCEPT !.reads = 1,
                                   !.failed = (failAt = 1),
                                   !.failedKey = IF failAt = 1 THEN DICTIONARY_INDEX_KEY ELSE <<>>]

\* What one call of lookupTerm(text) returns and leaves behind:
\*   status  "cached" (served from searchCache), "main" (returned at the end of the
\*           ranking), "fallback" (returned at the end of the function), "error" (rejected)
\*   st      the lookup state at the end (its cache is the new dataStoreCache)
LookupOutcome(status, results, S, newSearchCache) ==
    [status |-> status, results |-> results, rwl |-> S.rwl, reads |-> S.reads,
     failedKey |-> S.failedKey, dataStoreCache |-> S.cache, searchCache |-> newSearchCache,
     answers |-> S.answers, pend |-> S.pend]

\* The end of lookupTerm: results.sort by score, searchCache.set, return results
CacheAndReturn(F, text, results) ==
    IF F.st.failed THEN LookupOutcome("error", <<>>, F.st, searchCache)
    ELSE LookupOutcome("fallback", results, F.st, SearchCacheStore(searchCache, text, results))

\* if (results.length === 0 && text.length >= 2) { the partial reading matches }
Fallback(S2, text, dictNames) ==
    IF Len(text) >= 2 THEN FallbackDicts([st |-> S2, results |-> <<>>], text, dictNames, 1)
    ELSE [st |-> S2, results |-> <<>>]

SortedFallback(F, text) == CacheAndReturn(F, text, SortByScore(F.results))

\* if (results.length > 0) return results, without a write to searchCache
ReturnOrFallBack(S2, text, dictNames, main) ==
    IF Len(main) > 0 THEN LookupOutcome("main", main, S2, searchCache)
    ELSE SortedFallback(Fallback(S2, text, dictNames), text)

\* if (resultsWithLength.length > 0) { filter, sort, return }
FilterAndRank(S2, text, dictNames) ==
    IF S2.failed THEN LookupOutcome("error", <<>>, S2, searchCache)
    ELSE ReturnOrFallBack(S2, text, dictNames,
                          IF Len(S2.rwl) > 0 THEN RankResults(S2.rwl, text) ELSE <<>>)

\* The prefetch of the first character's buckets, then the substring loop
Prefetched(S1, text, dictNames) ==
    IF S1.failed THEN LookupOutcome("error", <<>>, S1, searchCache)
    ELSE FilterAndRank(SubstringLoop(S1, text, dictNames, Len(text)), text, dictNames)

WithIndex(S0, text, dictNames) ==
    IF S0.failed THEN LookupOutcome("error", <<>>, S0, searchCache)
    ELSE Prefetched(
             getDataStoreDataAll(S0, [j \in 1..Len(dictNames) |-> <<dictNames[j], text[1]>>]).st,
             text, dictNames)

lookupTerm(text, failAt) ==
    IF SearchCacheHit(text)
    THEN LookupOutcome("cached", OmGet(searchCache, text).results,
                       [NewLookupState(0) EXCEPT !.reads = 0], searchCache)
    ELSE WithIndex(AfterIndexRead(failAt), text, OmKeys(getDictionaryIndex))

----------------------------------------------------------------------------
(* Operations as actions.  `last` records the operation just performed:     *)
(*   op, arg (the text or the dictionary name), bank (an import's records), *)
(*   at (the time), status, results, rwl, reads, failAt, failedKey,         *)
(*   pre (the store and caches before it), prev (the operation before) and  *)
(*   n (the number of operations so far).                                   *)

NoOp ==
    [op |-> "none", arg |-> <<>>, bank |-> <<>>, at |-> 0, status |-> "none",
     results |-> <<>>, n |-> 0]

Brief(l) ==
    [op |-> l.op, arg |-> l.arg, bank |-> l.bank, at |-> l.at, status |-> l.status,
     results |-> l.results]

PreState ==
    [dictIndex |-> dictIndex, buckets |-> buckets, dataStoreCache |-> dataStoreCache,
     searchCache |-> searchCache]

Record(op, arg, bank, status, results, rwl, reads, failAt, failedKey) ==
    [op |-> op, arg |-> arg, bank |-> bank, at |-> now, status |-> status,
     results |-> results, rwl |-> rwl, reads |-> reads, failAt |-> failAt,
     failedKey |-> failedKey, pre |-> PreState, prev |-> Brief(last), n |-> last.n + 1]

\* The identities of the entries a term bank brings into a dictionary
ImportedBy(dictionaryName, termBank) ==
    {[dictionary |-> dictionaryName, term |-> MakeEntry(termBank[i]).term,
      reading |-> MakeEntry(termBank[i]).reading] : i \in 1..Len(termBank)}

\* lookupTerm(text); failAt numbers the DataStore.get that rejects (0: none)
Lookup(text, failAt) ==
    LET out == lookupTerm(text, failAt)
    IN  /\ dataStoreCache' = out.dataStoreCache
        /\ searchCache' = out.searchCache
        /\ last' = Record("lookup", text, <<>>, out.status, out.results, out.rwl, out.reads,
                          failAt, out.failedKey)
        /\ UNCHANGED <<tasks, dictIndex, buckets, now, engine, imported, ui>>

\* What JSON.parse(text) gives: [kind, items]; items are the records of an array (the
\* other kinds have none)
Parsed(termBank) == [kind |-> "array", items |-> termBank]
NotAnArray(kind) == [kind |-> kind, items |-> <<>>]

\* A payload that always passes for an array
AlwaysArray(payload) == TRUE

\* Array.isArray(termBank)
IsArray(payload) == payload.kind = "array"

\* importDictionaryJSON(file, dictionaryName) for a file whose text parses to payload:
\* the result and the store it leaves
importDictionaryJSON(dictionaryName, payload) ==
    IF ~IsArray(payload)
    THEN [success |-> FALSE, dictIndex |-> dictIndex, buckets |-> buckets]
    ELSE [success |-> TRUE,
          dictIndex |-> RegisterDictionary(getDictionaryIndex, dictionaryName),
          buckets |-> processTermBank(dictionaryName, payload.items, buckets)]

ImportDictionary(dictionaryName, payload) ==
    LET out == importDictionaryJSON(dictionaryName, payload)
    IN  /\ dictIndex' = out.dictIndex
        /\ buckets' = out.buckets
        /\ imported' = IF out.success
                       THEN imported \cup ImportedBy(dictionaryName, payload.items)
                       ELSE imported
        /\ last' = Record("import", dictionaryName, payload.items,
                          IF out.success THEN "success" ELSE "failure",
                          <<>>, <<>>, 0, 0, <<>>) @@ [kind |-> payload.kind]
        /\ UNCHANGED <<tasks, dataStoreCache, searchCache, now, engine, ui>>

\* deleteDictionary(dictionaryName)
DeleteDictionary(dictionaryName) ==
    /\ dictIndex' = IF DICTIONARY_INDEX_KEY \in KeysToDelete(dictionaryName, StoreKeys)
                    THEN <<>>
                    ELSE OmDelete(getDictionaryIndex, dictionaryName)
    /\ buckets' = [key \in (DOMAIN buckets) \ KeysToDelete(dictionaryName, StoreKeys) |->
                      buckets[key]]
    /\ imported' = {e \in imported : e.dictionary # dictionaryName}
    /\ last' = Record("delete", dictionaryName, <<>>, "done", <<>>, <<>>, 0, 0, <<>>)
    /\ UNCHANGED <<tasks, dataStoreCache, searchCache, now, engine, ui>>

\* cleanupOrphanedDictionaryKeys()
CleanupOrphans ==
    /\ buckets' = [key \in (DOMAIN buckets) \ findOrphanedDictionaryKeys |-> buckets[key]]
    /\ last' = Record("cleanup", <<>>, <<>>, "done", <<>>, <<>>, 0, 0, <<>>)
    /\ dictIndex' = IF DICTIONARY_INDEX_KEY \in findOrphanedDictionaryKeys THEN <<>>
                    ELSE dictIndex
    /\ UNCHANGED <<tasks, dataStoreCache, searchCache, now, engine, imported, ui>>

----------------------------------------------------------------------------
(* The hover interface (index.tsx).  One popup level, 0, is followed: the   *)
(* pointer is never inside a tooltip.  A container is the element made by   *)
(* createTooltip; it keeps its content and its fields when it is detached   *)
(* from the document, as the handler that captured it may still read them.  *)
(* Containers are numbered in creation order.  The timers are those of the  *)
(* 100 ms removals; they have one delay, so they fire in the order set.     *)

NoText == <<>>           \* currentText = null
NoPosition == 0          \* lastTooltipPosition = null, no position stored for the level

Blank == [kind |-> "blank", text |-> <<>>, entries |-> <<>>]
Loading == [kind |-> "loading", text |-> <<>>, entries |-> <<>>]
\* formatDictionaryResults(matchedTerm, entries); text is the text looked up
Rendered(text, entries) == [kind |-> "results", text |-> text, entries |-> entries]

\* The module's variables before any event.  hid is history: hideAllTooltips ran
\* during the handler now running
NoUi ==
    [isKeyPressed |-> FALSE, currentText |-> NoText, pendingLookupAborted |-> FALSE,
     tooltips |-> <<>>, containers |-> <<>>, lastTooltipPosition |-> NoPosition,
     lastTooltipPositionsByLevel |-> NoPosition, globalClickHandler |-> FALSE,
     timers |-> <<>>, hid |-> FALSE]

\* The containers the Map tooltips holds
Displayed(U) == {U.tooltips[i].v : i \in 1..Len(U.tooltips)}

\* createTooltip(popupLevel) and tooltips.set(popupLevel, tooltip)
createTooltip(U, popupLevel) ==
    [U EXCEPT !.containers = Append(@, [content |-> Blank, opacity |-> 1,
                                        removalTimeout |-> FALSE, attached |-> TRUE]),
              !.tooltips = OmPut(@, popupLevel, Len(U.containers) + 1)]

\* clearTimeout(container._removalTimeout); container._removalTimeout = null
CancelRemoval(U, id) ==
    [U EXCEPT !.timers = SelectSeq(@, LAMBDA t : ~(t.kind = "level" /\ t.id = id)),
              !.containers[id].removalTimeout = FALSE]

\* The body of hideTooltipsAtLevel for one tooltip: opacity 0 and a new 100 ms timer
FadeOut(U, id, tooltipLevel) ==
    [CancelRemoval(U, id)
        EXCEPT !.containers[id].opacity = 0,
               !.containers[id].removalTimeout = TRUE,
               !.timers = Append(SelectSeq(U.timers,
                                           LAMBDA t : ~(t.kind = "level" /\ t.id = id)),
                                 [kind |-> "level", id |-> id, level |-> tooltipLevel,
                                  targets |-> {}])]

\* hideTooltipsAtLevel(level): for (const [tooltipLevel, { container }] of tooltips.entries())
RECURSIVE HideFrom(_, _, _, _)
HideFrom(U, entries, level, i) ==
    IF i > Len(entries) THEN U
    ELSE HideFrom(IF entries[i].k >= level THEN FadeOut(U, entries[i].v, entries[i].k) ELSE U,
                  entries, level, i + 1)

hideTooltipsAtLevel(U, level) == HideFrom(U, U.tooltips, level, 1)

\* hideAllTooltips: the flag, opacity 0 for every tooltip of the Map, and a timer that
\* is kept nowhere.  targets is history: the containers displayed at the call
hideAllTooltips(U) ==
    [U EXCEPT !.pendingLookupAborted = TRUE,
              !.containers = [id \in 1..Len(U.containers) |->
                                 IF id \in Displayed(U) THEN [@[id] EXCEPT !.opacity = 0]
                                 ELSE @[id]],
              !.timers = Append(@, [kind |-> "all", id |-> 0, level |-> 0,
                                    targets |-> Displayed(U)]),
              !.hid = TRUE]

\* History: a container that is shown again leaves the targets of the pending timers
Reshown(timers, id) ==
    [n \in 1..Len(timers) |-> [timers[n] EXCEPT !.targets = @ \ {id}]]

\* The end of showTooltip: the content, display and opacity of the level's container
\* and the global click handler.  The container leaves the targets of the pending
\* hideAllTooltips timers (history)
SetContent(U, id, content) ==
    [U EXCEPT !.containers[id].content = content,
              !.containers[id].opacity = 1,
              !.globalClickHandler = TRUE,
              !.timers = Reshown(@, id)]

\* showTooltip(x, y, content, popupLevel): an existing tooltip of the level has its
\* pending removal cancelled and is updated; otherwise tooltips of this level
\* (level 0) or of higher levels are hidden and a tooltip is created
showTooltip(U, content, popupLevel) ==
    IF OmHas(U.tooltips, popupLevel)
    THEN SetContent(IF U.containers[OmGet(U.tooltips, popupLevel)].removalTimeout
                    THEN CancelRemoval(U, OmGet(U.tooltips, popupLevel))
                    ELSE U,
                    OmGet(U.tooltips, popupLevel), content)
    ELSE SetContent(createTooltip(hideTooltipsAtLevel(U, IF popupLevel > 0
                                                         THEN popupLevel + 1
                                                         ELSE popupLevel),
                                  popupLevel),
                    Len(U.containers) + 1, content)

\* The callback of hideAllTooltips' setTimeout: every container the Map holds now is
\* removed, the Map and the positions are cleared
RemoveAll(U) ==
    [U EXCEPT !.containers = [id \in 1..Len(U.containers) |->
                                 IF id \in Displayed(U) THEN [@[id] EXCEPT !.attached = FALSE]
                                 ELSE @[id]],
              !.tooltips = <<>>,
              !.lastTooltipPosition = NoPosition,
              !.lastTooltipPositionsByLevel = NoPosition,
              !.timers = Tail(@)]

\* The callback of hideTooltipsAtLevel's setTimeout: the container is removed and the
\* Map's record of its level deleted
RemoveOne(U, t) ==
    [U EXCEPT !.containers[t.id].attached = FALSE,
              !.tooltips = OmDelete(@, t.level),
              !.timers = Tail(@)]

\* Pointer positions: x coordinates, and the longest text candidate found there
\* (家, 愛, あ, none)
PosX(pos) == CASE pos = 1 -> 0 [] pos = 2 -> 300 [] pos = 3 -> 600 [] OTHER -> 900
TextAt(pos) ==
    CASE pos = 1 -> <<23478>> [] pos = 2 -> <<24859>> [] pos = 3 -> <<12354>>
      [] OTHER -> NoText

\* lastPosForLevel = lastTooltipPositionsByLevel.get(currentLevel) || lastTooltipPosition;
\* isNearLastPosition: less than 100 px away
isNearLastPosition(U, pos) ==
    LET lastPosForLevel == IF U.lastTooltipPositionsByLevel # NoPosition
                           THEN U.lastTooltipPositionsByLevel ELSE U.lastTooltipPosition
    IN  /\ lastPosForLevel # NoPosition
        /\ PosX(pos) - PosX(lastPosForLevel) < 100
        /\ PosX(lastPosForLevel) - PosX(pos) < 100

\* What a handler leaves: the variables, and the lookup it awaits, if any
Ends(U) == [ui |-> U, awaits |-> FALSE, text |-> NoText, tooltip |-> 0]
Awaits(U, text, popupLevel) ==
    [ui |-> U, awaits |-> TRUE, text |-> text, tooltip |-> OmGet(U.tooltips, popupLevel)]

\* handleMouseMoveDebounced from "Show loading indicator immediately" to the await
ShowLoading(U, pos) ==
    Awaits([showTooltip(IF OmHas(U.tooltips, 0) THEN U ELSE createTooltip(U, 0), Loading, 0)
               EXCEPT !.currentText = TextAt(pos),
                      !.lastTooltipPosition = pos,
                      !.lastTooltipPositionsByLevel = pos],
           TextAt(pos), 0)

\* handleMouseMoveDebounced once the key is known to be pressed; near is
\* isNearLastPosition as computed at the start of the handler
Scanning(U, pos, near) ==
    IF TextAt(pos) = NoText
    THEN Ends(IF ~near
              THEN [hideAllTooltips(U) EXCEPT !.currentText = NoText,
                                              !.lastTooltipPosition = NoPosition,
                                              !.lastTooltipPositionsByLevel = NoPosition]
              ELSE U)
    ELSE IF TextAt(pos) = U.currentText /\ near THEN Ends(U)
    ELSE ShowLoading(U, pos)

\* "Update our internal state to match reality": the key is up but isKeyPressed is set
KeyOutOfSync(U, near) ==
    IF ~near
    THEN [hideAllTooltips(U) EXCEPT !.isKeyPressed = FALSE, !.currentText = NoText,
                                    !.lastTooltipPosition = NoPosition]
    ELSE [U EXCEPT !.isKeyPressed = FALSE, !.currentText = NoText]

\* The first statement of handleMouseMoveDebounced: pendingLookupAborted = false
ResetAborted(U) == [U EXCEPT !.pendingLookupAborted = FALSE]

\* handleMouseMoveDebounced(e) up to its await or its return; e = [pos, key], key is
\* the modifier of the event (keyActuallyPressed)
MouseMoveFrom(U, e, near) ==
    IF Len(U.tooltips) > 0 /\ near /\ ~e.key THEN Ends(U)
    ELSE IF ~e.key
         THEN Ends(IF U.isKeyPressed THEN KeyOutOfSync(U, near) ELSE U)
         ELSE Scanning([U EXCEPT !.isKeyPressed = TRUE], e.pos, near)

handleMouseMoveDebounced(U, e) ==
    MouseMoveFrom(ResetAborted(U), e, isNearLastPosition(U, e.pos))

\* The entries of the first dictionary of the results (entriesByDict, dictionaries[0])
FirstDictionary(entries) ==
    SelectSeq(entries, LAMBDA r : r.dictionary = entries[1].dictionary)

\* handleMouseMoveDebounced after `await lookupTerm(longestText)`; tooltip is the
\* container the handler captured before the await
AfterLookup(U, text, tooltip, entries) ==
    IF U.pendingLookupAborted
    THEN IF U.containers[tooltip].content.kind = "loading"
         THEN [hideAllTooltips(U) EXCEPT !.lastTooltipPosition = NoPosition,
                                         !.lastTooltipPositionsByLevel = NoPosition]
         ELSE U
    ELSE IF Len(entries) > 0
         THEN showTooltip(U, Rendered(text, FirstDictionary(entries)), 0)
         ELSE [hideAllTooltips(U) EXCEPT !.lastTooltipPosition = NoPosition,
                                         !.lastTooltipPositionsByLevel = NoPosition]

\* handleKeyUp for the scan key
handleKeyUp(U) ==
    [U EXCEPT !.isKeyPressed = FALSE, !.pendingLookupAborted = TRUE, !.currentText = NoText]

\* handleKeyDown for the scan key
handleKeyDown(U) == [U EXCEPT !.isKeyPressed = TRUE]

handleWindowBlur(U) ==
    [U EXCEPT !.isKeyPressed = FALSE, !.currentText = NoText, !.pendingLookupAborted = TRUE]

handleWindowFocus(U) == [U EXCEPT !.isKeyPressed = FALSE, !.currentText = NoText]

----------------------------------------------------------------------------
(* The matcher on imported dictionaries: the store is what importing a term *)
(* bank into dictionary "A" (and one into "B") leaves, the caches are cold, *)
(* and one text is looked up.                                               *)

DictA == <<65>>      \* "A"
DictB == <<66>>      \* "B"

Raw(term, reading, score, definitions) ==
    [term |-> term, reading |-> reading, score |-> score, definitions |-> definitions]

\* 食べる【たべる】 食べ【たべ】 家【いえ】 家持【いえもち】 アイ【あい】 愛【あい】
\* あ|あ【あ】 あ【あ|あ】 田【た】 たべます サボる【さぼる】 家持【やかもち】
\* みます 見る【みる】 ア【あ】
TermsA ==
    << Raw(<<39135, 12409, 12427>>, <<12383, 12409, 12427>>, 10, 1),
       Raw(<<39135, 12409>>, <<12383, 12409>>, 3, 1),
       Raw(<<23478>>, <<12356, 12360>>, 5, 1),
       Raw(<<23478, 25345>>, <<12356, 12360, 12418, 12385>>, 1, 1),
       Raw(<<12450, 12452>>, <<12354, 12356>>, 2, 1),
       Raw(<<24859>>, <<12354, 12356>>, 4, 1),
       Raw(<<12354, 124, 12354>>, <<12354>>, 1, 1),
       Raw(<<12354>>, <<12354, 124, 12354>>, 1, 1),
       Raw(<<30000>>, <<12383>>, 9, 1),
       Raw(<<12383, 12409, 12414, 12377>>, <<>>, 1, 1),
       Raw(<<12469, 12508, 12427>>, <<12373, 12412, 12427>>, 6, 1),
       Raw(<<23478, 25345>>, <<12420, 12363, 12418, 12385>>, 2, 1),
       Raw(<<12415, 12414, 12377>>, <<>>, 1, 1),
       Raw(<<35211, 12427>>, <<12415, 12427>>, 5, 1),
       Raw(<<12450>>, <<12354>>, 3, 1) >>

\* 家【いえ】 家【や】 食べる【たべる】
TermsB ==
    << Raw(<<23478>>, <<12356, 12360>>, 7, 2),
       Raw(<<23478>>, <<12420>>, 8, 2),
       Raw(<<39135, 12409, 12427>>, <<12383, 12409, 12427>>, 2, 2) >>

\* The largest term banks imported into "A" and into "B"
MaxBank == 2
MaxBankB == 1

\* The subsequence of seq at the positions in picks
RECURSIVE Pick(_, _, _)
Pick(seq, picks, i) ==
    IF i > Len(seq) THEN <<>>
    ELSE (IF i \in picks THEN <<seq[i]>> ELSE <<>>) \o Pick(seq, picks, i + 1)

BanksOf(seq, maxLen) ==
    {Pick(seq, picks, 1) : picks \in {t \in SUBSET (1..Len(seq)) : Cardinality(t) <= maxLen}}

\* 食べます たべます サボった, a reading followed by a kanji: いえ家, and the start
\* of a reading in katakana: イエ
InflectedTexts ==
    { <<39135, 12409, 12414, 12377>>, <<12383, 12409, 12414, 12377>>,
      <<12469, 12508, 12387, 12383>>, <<12356, 12360, 23478>>, <<12452, 12456>> }

\* The texts looked up: every term and reading of the term banks, and the inflected forms
Texts ==
    {TermsA[i].term : i \in 1..Len(TermsA)} \cup {TermsB[i].term : i \in 1..Len(TermsB)}
    \cup {MakeEntry(TermsA[i]).reading : i \in 1..Len(TermsA)}
    \cup {MakeEntry(TermsB[i]).reading : i \in 1..Len(TermsB)}
    \cup InflectedTexts

InitMatch ==
    \E bankA \in BanksOf(TermsA, MaxBank), bankB \in BanksOf(TermsB, MaxBankB) :
        /\ dictIndex = IF bankB = <<>> THEN RegisterDictionary(<<>>, DictA)
                       ELSE RegisterDictionary(RegisterDictionary(<<>>, DictA), DictB)
        /\ buckets = IF bankB = <<>> THEN processTermBank(DictA, bankA, <<>>)
                     ELSE processTermBank(DictB, bankB, processTermBank(DictA, bankA, <<>>))
        /\ dataStoreCache = <<>>
        /\ searchCache = <<>>
        /\ now = 0
        /\ engine = RuleEngine
        /\ imported = ImportedBy(DictA, bankA) \cup ImportedBy(DictB, bankB)
        /\ last = NoOp /\ tasks = <<>> /\ ui = NoUi

\* One lookup on the cold caches
Scan == \E text \in Texts : last.op = "none" /\ Lookup(text, 0)

NextMatch == Scan

SpecMatch == InitMatch /\ [][NextMatch]_vars

----------------------------------------------------------------------------
(* The ranking: one dictionary "A" holds up to MaxRankBank records of       *)
(* TermsRank, whose entries tie on the first keys of the comparator or are  *)
(* reached by the fallback only, and one text is looked up.                 *)

\* 愛【あい】 アイ【あい】 アイ【め】 あい 相【あい】 アイス【あい】
\* 家持ち (no reading) 家持ち【いえもち】
TermsRank ==
    << Raw(<<24859>>, <<12354, 12356>>, 4, 1),
       Raw(<<12450, 12452>>, <<12354, 12356>>, 9, 1),
       Raw(<<12450, 12452>>, <<12417>>, 6, 1),
       Raw(<<12354, 12356>>, <<>>, 5, 1),
       Raw(<<30456>>, <<12354, 12356>>, 7, 1),
       Raw(<<12450, 12452, 12473>>, <<12354, 12356>>, 8, 1),
       Raw(<<23478, 25345, 12385>>, <<>>, 3, 1),
       Raw(<<23478, 25345, 12385>>, <<12356, 12360, 12418, 12385>>, 2, 1) >>

MaxRankBank == 3

InitRank ==
    \E bank \in BanksOf(TermsRank, MaxRankBank) :
        /\ dictIndex = RegisterDictionary(<<>>, DictA)
        /\ buckets = processTermBank(DictA, bank, <<>>)
        /\ dataStoreCache = <<>>
        /\ searchCache = <<>>
        /\ now = 0
        /\ engine = RuleEngine
        /\ imported = ImportedBy(DictA, bank)
        /\ last = NoOp /\ tasks = <<>> /\ ui = NoUi

SpecRank == InitRank /\ [][Scan]_vars

----------------------------------------------------------------------------
(* The deinflection adapter on any engine: the engine follows the rules,    *)
(* throws, or returns some sequence of results; the candidates of a text    *)
(* are computed, or the inflected text is looked up in a small dictionary.  *)

\* 食べます 食べる 食べ
EngineTexts ==
    { <<39135, 12409, 12414, 12377>>, <<39135, 12409, 12427>>, <<39135, 12409>> }

\* The most results the engine returns
MaxResults == 3

SeqsUpTo(S, n) == UNION {[1..k -> S] : k \in 0..n}

Engines ==
    {RuleEngine, ThrowingEngine}
    \cup {ResultsEngine(r) : r \in SeqsUpTo({[text |-> t] : t \in EngineTexts}, MaxResults)}

InitDeinflect ==
    \E bankA \in BanksOf(SubSeq(TermsA, 1, 2), 2), e \in Engines :
        /\ dictIndex = RegisterDictionary(<<>>, DictA)
        /\ buckets = processTermBank(DictA, bankA, <<>>)
        /\ dataStoreCache = <<>>
        /\ searchCache = <<>>
        /\ now = 0
        /\ engine = e
        /\ imported = ImportedBy(DictA, bankA)
        /\ last = NoOp /\ tasks = <<>> /\ ui = NoUi

\* getDeinflectionCandidates(text)
Candidates ==
    \E text \in EngineTexts :
        /\ last.op = "none"
        /\ last' = Record("candidates", text, <<>>, "returned",
                          getDeinflectionCandidates(text), <<>>, 0, 0, <<>>)
        /\ UNCHANGED <<tasks, dictIndex, buckets, dataStoreCache, searchCache, now, engine,
                       imported, ui>>

\* lookupTerm of the inflected text
ScanInflected == last.op = "none" /\ Lookup(<<39135, 12409, 12414, 12377>>, 0)

NextDeinflect == Candidates \/ ScanInflected

SpecDeinflect == InitDeinflect /\ [][NextDeinflect]_vars

----------------------------------------------------------------------------
(* The plugin in use: dictionaries are imported and deleted, orphans are    *)
(* cleaned up, texts are looked up (a store read may fail) and time passes. *)

NameAB == <<65, 95, 66>>     \* "A_B"
NameC == <<67>>              \* "C"
Names == {NameAB, NameC}

\* 家【いえ】;  あ|あ【あ】 あ【あ|あ】
BankHouse == << Raw(<<23478>>, <<12356, 12360>>, 5, 1) >>
BankBars ==
    << Raw(<<12354, 124, 12354>>, <<12354>>, 1, 1),
       Raw(<<12354>>, <<12354, 124, 12354>>, 1, 1) >>
Banks == {BankHouse, BankBars}

\* The parsed payloads of the files imported: the term banks, an object and a string
Payloads == {Parsed(termBank) : termBank \in Banks} \cup {NotAnArray("object"), NotAnArray("string")}

\* 家 あ
LookupTexts == { <<23478>>, <<12354>> }

\* The operations of a behaviour, the reads of a lookup that may fail, the clock
MaxOps == 3
MaxFailAt == 2
TickStep == 5000
MaxTicks == 2

Init ==
    /\ dictIndex = <<>>
    /\ buckets = <<>>
    /\ dataStoreCache = <<>>
    /\ searchCache = <<>>
    /\ now = 0
    /\ engine = RuleEngine
    /\ imported = {}
    /\ last = NoOp /\ tasks = <<>> /\ ui = NoUi

\* Date.now() advances
Tick ==
    /\ now < MaxTicks * TickStep
    /\ now' = now + TickStep
    /\ UNCHANGED <<tasks, dictIndex, buckets, dataStoreCache, searchCache, engine, imported, last, ui>>

Import ==
    /\ last.n < MaxOps
    /\ \E dictionaryName \in Names, payload \in Payloads :
          ImportDictionary(dictionaryName, payload)

Delete == last.n < MaxOps /\ \E dictionaryName \in Names : DeleteDictionary(dictionaryName)

Cleanup == last.n < MaxOps /\ CleanupOrphans

Search ==
    /\ last.n < MaxOps
    /\ \E text \in LookupTexts, failAt \in 0..MaxFailAt : Lookup(text, failAt)

Next == Import \/ Delete \/ Cleanup \/ Search \/ Tick

Spec == Init /\ [][Next]_vars

----------------------------------------------------------------------------
(* The bucket cache near its capacity: dictionary "C" holds 家【いえ】, the   *)
(* cache holds a record (of a missing bucket) for each of the first kana,   *)
(* written before the import, and buckets are fetched one after another.    *)

\* The i-th kana: ぁ あ ぃ い ...
FillerChar(i) == 12352 + i

\* The characters fetched: the oldest key, い (its bucket is stored by now), 家 and 田
FetchedChars == {FillerChar(1), FillerChar(4), 23478, 30000}

\* The fetches of a behaviour
MaxGets == 2

\* A cache of n records, those at the positions in fresh written at time 1, the others at 0
FilledCache(n, fresh) ==
    [i \in 1..n |->
        [k |-> CacheKey(NameC, FillerChar(i)),
         v |-> [data |-> Undefined, timestamp |-> IF i \in fresh THEN 1 ELSE 0]]]

InitCache ==
    \E n \in {DATASTORE_CACHE_MAX - 1, DATASTORE_CACHE_MAX}, fresh \in SUBSET {1, 4},
       t \in {DATASTORE_CACHE_TTL - 1, DATASTORE_CACHE_TTL} :
        /\ dictIndex = RegisterDictionary(<<>>, NameC)
        /\ buckets = processTermBank(NameC, BankHouse, <<>>)
        /\ dataStoreCache = FilledCache(n, fresh)
        /\ searchCache = <<>>
        /\ now = t
        /\ engine = RuleEngine
        /\ imported = ImportedBy(NameC, BankHouse)
        /\ last = NoOp /\ tasks = <<>> /\ ui = NoUi

\* await getDataStoreData("C", firstChar)
GetBucketOf(r, firstChar) ==
    /\ dataStoreCache' = r.st.cache
    /\ last' = Record("get", <<firstChar>>, <<>>, "returned", r.data, <<>>, r.st.reads, 0, <<>>)
    /\ UNCHANGED <<tasks, dictIndex, buckets, searchCache, now, engine, imported, ui>>

GetBucket ==
    /\ last.n < MaxGets
    /\ \E firstChar \in FetchedChars :
          GetBucketOf(getDataStoreData(NewLookupState(0), NameC, firstChar), firstChar)

SpecCache == InitCache /\ [][GetBucket]_vars

----------------------------------------------------------------------------
(* The result cache near its capacity: dictionary "C" holds 家【いえ】, the    *)
(* cache holds the empty list for each of the first kana, looked up         *)
(* earlier, and texts are looked up one after another.                      *)

\* The texts looked up: the two oldest keys, and 田 and 家, which the cache does not hold
ScannedTexts == { <<FillerChar(1)>>, <<FillerChar(2)>>, <<30000>>, <<23478>> }

\* The lookups of a behaviour
MaxScans == 2

\* A cache of n records, those at the positions in fresh written at time 1, the others at 0
FilledSearchCache(n, fresh) ==
    [i \in 1..n |->
        [k |-> <<FillerChar(i)>>,
         v |-> [results |-> <<>>, timestamp |-> IF i \in fresh THEN 1 ELSE 0]]]

InitResults ==
    \E n \in {MAX_CACHE_SIZE - 1, MAX_CACHE_SIZE}, fresh \in SUBSET {1, 2},
       t \in {CACHE_TTL - 1, CACHE_TTL} :
        /\ dictIndex = RegisterDictionary(<<>>, NameC)
        /\ buckets = processTermBank(NameC, BankHouse, <<>>)
        /\ dataStoreCache = <<>>
        /\ searchCache = FilledSearchCache(n, fresh)
        /\ now = t
        /\ engine = RuleEngine
        /\ imported = ImportedBy(NameC, BankHouse)
        /\ last = NoOp /\ tasks = <<>> /\ ui = NoUi

ScanNext == last.n < MaxScans /\ \E text \in ScannedTexts : Lookup(text, 0)

SpecResults == InitResults /\ [][ScanNext]_vars

----------------------------------------------------------------------------
(* Dictionaries whose names extend one another: "A" may hold 家持【いえもち】, *)
(* "A_B" 家【いえ】 and "C" the entries with a bar; dictionaries are deleted,  *)
(* orphans are cleaned up and texts are looked up.                          *)

\* The store after importDictionaryJSON of a term bank into st (none when it is empty)
Installing(dictionaryName, termBank, st) ==
    IF termBank = <<>> THEN st
    ELSE [dictIndex |-> RegisterDictionary(st.dictIndex, dictionaryName),
          buckets |-> processTermBank(dictionaryName, termBank, st.buckets)]

StoreIs(st) == dictIndex = st.dictIndex /\ buckets = st.buckets

InitNames ==
    \E bankA \in {<<>>, SubSeq(TermsA, 4, 4)}, bankAB \in {<<>>, BankHouse},
       bankC \in {<<>>, BankBars} :
        /\ StoreIs(Installing(NameC, bankC,
                       Installing(NameAB, bankAB,
                           Installing(DictA, bankA, [dictIndex |-> <<>>, buckets |-> <<>>]))))
        /\ dataStoreCache = <<>>
        /\ searchCache = <<>>
        /\ now = 0
        /\ engine = RuleEngine
        /\ imported = ImportedBy(DictA, bankA) \cup ImportedBy(NameAB, bankAB)
                          \cup ImportedBy(NameC, bankC)
        /\ last = NoOp /\ tasks = <<>> /\ ui = NoUi

DeleteAny ==
    last.n < MaxOps /\ \E dictionaryName \in {DictA, NameAB, NameC} :
                          DeleteDictionary(dictionaryName)

\* lookupTerm of いえ or 家
LookupStored ==
    last.n < MaxOps /\ \E text \in {<<12356, 12360>>, <<23478>>} : Lookup(text, 0)

SpecNames == InitNames /\ [][DeleteAny \/ Cleanup \/ LookupStored]_vars

----------------------------------------------------------------------------
(* Calls in progress.  importDictionaryJSON, deleteDictionary and           *)
(* getDataStoreData are asynchronous: a call runs to its next awaited       *)
(* DataStore call, and other calls run before that await resolves.  A step  *)
(* is one resolved await and the code up to the next one; the DataStore     *)
(* call takes effect when it resolves, and the DataStore calls of an import *)
(* may reject.  tasks holds every call begun, with its locals, the await it *)
(* is at (pc), what it returned and the store writes it made (log).         *)
(* Dictionary "B" may be installed with 家【いえ】 at the start.  In the      *)
(* first specification 家【いえ】 is imported into "A" and "B" and "B" is     *)
(* deleted; in the second it is imported into "A" while the bucket 家 of    *)
(* "A" is read through the bucket cache and time passes.                    *)

MaxWriters == 2
MaxTasks == 3

\* A call at its first await, `await getDictionaryIndex()` for an import or a delete
Call(op, dictionaryName) ==
    [op |-> op, name |-> dictionaryName, bank |-> <<>>, pc |-> "index", index |-> <<>>,
     grouped |-> <<>>, i |-> 1, merged |-> <<>>, keys |-> {}, firstChar |-> 0,
     at |-> now, data |-> Undefined, log |-> <<>>, status |-> "running"]

\* The call after a store write to keys
Logged(call, keys) == [call EXCEPT !.log = Append(@, [keys |-> keys, at |-> now])]

At(k, op, pc) == k \in 1..Len(tasks) /\ tasks[k].op = op /\ tasks[k].pc = pc

Settle(k, call) == tasks' = [tasks EXCEPT ![k] = call]

Begin(call, max) == Len(tasks) < max /\ tasks' = Append(tasks, call)

\* The catch of importDictionaryJSON: return { success: false }
Rejected(call) == [call EXCEPT !.pc = "done", !.status = "failure"]

\* The storing loop of processTermBank at group i: the next await is the get of the
\* group's bucket; after the last group the import returns { success: true }
NextGroup(call) ==
    IF call.i > Len(call.grouped)
    THEN [call EXCEPT !.pc = "done", !.status = "success"]
    ELSE [call EXCEPT !.pc = "get"]

\* processTermBank up to its first await
Grouped(call) == NextGroup([call EXCEPT !.grouped = GroupTerms(call.bank, 1, <<>>)])

GroupKey(call) == DataKey(call.name, call.grouped[call.i].k)

BeginImport ==
    /\ \E dictionaryName \in {DictA, DictB} :
          Begin([Call("import", dictionaryName) EXCEPT !.bank = BankHouse], MaxWriters)
    /\ UNCHANGED <<dictIndex, buckets, dataStoreCache, searchCache, now, engine, imported, last, ui>>

\* const index = await getDictionaryIndex(); if (!index[dictionaryName]) { ... }
ImportIndex(k, ok) ==
    /\ At(k, "import", "index")
    /\ Settle(k, IF ~ok THEN Rejected(tasks[k])
                 ELSE IF OmHas(getDictionaryIndex, tasks[k].name) THEN Grouped(tasks[k])
                 ELSE [tasks[k] EXCEPT
                          !.index = RegisterDictionary(getDictionaryIndex, tasks[k].name),
                          !.pc = "register"])
    /\ UNCHANGED <<dictIndex, buckets, dataStoreCache, searchCache, now, engine, imported, last, ui>>

\* await DataStore.set(DICTIONARY_INDEX_KEY, index); await processTermBank(...)
ImportRegister(k, ok) ==
    /\ At(k, "import", "register")
    /\ dictIndex' = IF ok THEN tasks[k].index ELSE dictIndex
    /\ Settle(k, IF ok THEN Grouped(Logged(tasks[k], {DICTIONARY_INDEX_KEY}))
                 ELSE Rejected(tasks[k]))
    /\ UNCHANGED <<buckets, dataStoreCache, searchCache, now, engine, imported, last, ui>>

\* const existing = await DataStore.get(key) || {}; merged = ...
ImportGet(k, ok) ==
    /\ At(k, "import", "get")
    /\ Settle(k, IF ~ok THEN Rejected(tasks[k])
                 ELSE [tasks[k] EXCEPT
                          !.merged = MergeGroup(tasks[k].grouped[tasks[k].i].v, 1,
                                         IF GroupKey(tasks[k]) \in DOMAIN buckets
                                         THEN buckets[GroupKey(tasks[k])] ELSE <<>>),
                          !.pc = "set"])
    /\ UNCHANGED <<dictIndex, buckets, dataStoreCache, searchCache, now, engine, imported, last, ui>>

\* await DataStore.set(key, merged); the loop goes on to the next group
ImportSet(k, ok) ==
    /\ At(k, "import", "set")
    /\ buckets' = IF ~ok THEN buckets
                  ELSE [x \in (DOMAIN buckets) \cup {GroupKey(tasks[k])} |->
                           IF x = GroupKey(tasks[k]) THEN tasks[k].merged ELSE buckets[x]]
    /\ Settle(k, IF ~ok THEN Rejected(tasks[k])
                 ELSE NextGroup([Logged(tasks[k], {GroupKey(tasks[k])}) EXCEPT !.i = @ + 1]))
    /\ UNCHANGED <<dictIndex, dataStoreCache, searchCache, now, engine, imported, last, ui>>

\* Files are imported one after the other (importMultipleDictionaryFiles)
ImportA ==
    /\ \A k \in 1..Len(tasks) : tasks[k].op = "import" => tasks[k].pc = "done"
    /\ Begin([Call("import", DictA) EXCEPT !.bank = BankHouse], MaxTasks)
    /\ UNCHANGED <<dictIndex, buckets, dataStoreCache, searchCache, now, engine, imported, last, ui>>

BeginDelete ==
    /\ Begin(Call("delete", DictB), MaxWriters)
    /\ UNCHANGED <<dictIndex, buckets, dataStoreCache, searchCache, now, engine, imported, last, ui>>

\* const index = await getDictionaryIndex(); delete index[dictionaryName]
DeleteIndex(k) ==
    /\ At(k, "delete", "index")
    /\ Settle(k, [tasks[k] EXCEPT !.index = OmDelete(getDictionaryIndex, tasks[k].name),
                                  !.pc = "unregister"])
    /\ UNCHANGED <<dictIndex, buckets, dataStoreCache, searchCache, now, engine, imported, last, ui>>

\* await DataStore.set(DICTIONARY_INDEX_KEY, index)
DeleteUnregister(k) ==
    /\ At(k, "delete", "unregister")
    /\ dictIndex' = tasks[k].index
    /\ Settle(k, [Logged(tasks[k], {DICTIONARY_INDEX_KEY}) EXCEPT !.pc = "keys"])
    /\ UNCHANGED <<buckets, dataStoreCache, searchCache, now, engine, imported, last, ui>>

\* const allKeys = await DataStore.keys(); keysToDelete = allKeys.filter(...)
DeleteKeys(k) ==
    /\ At(k, "delete", "keys")
    /\ Settle(k, IF KeysToDelete(tasks[k].name, StoreKeys) = {}
                 THEN [tasks[k] EXCEPT !.pc = "done", !.status = "done"]
                 ELSE [tasks[k] EXCEPT !.keys = KeysToDelete(tasks[k].name, StoreKeys),
                                       !.pc = "delMany"])
    /\ UNCHANGED <<dictIndex, buckets, dataStoreCache, searchCache, now, engine, imported, last, ui>>

\* await DataStore.delMany(keysToDelete)
DeleteMany(k) ==
    /\ At(k, "delete", "delMany")
    /\ buckets' = [key \in (DOMAIN buckets) \ tasks[k].keys |-> buckets[key]]
    /\ dictIndex' = IF DICTIONARY_INDEX_KEY \in tasks[k].keys THEN <<>> ELSE dictIndex
    /\ Settle(k, [Logged(tasks[k], tasks[k].keys) EXCEPT !.pc = "done", !.status = "done"])
    /\ UNCHANGED <<dataStoreCache, searchCache, now, engine, imported, last, ui>>

\* getDataStoreData("A", "家") up to its await: a fresh cache record is returned at
\* once, otherwise the call awaits DataStore.get(dataKey)
BeginGet ==
    /\ Begin(IF CacheHit(dataStoreCache, CacheKey(DictA, 23478))
             THEN [Call("get", DictA) EXCEPT
                      !.firstChar = 23478, !.pc = "done", !.status = "hit",
                      !.data = OmGet(dataStoreCache, CacheKey(DictA, 23478)).data]
             ELSE [Call("get", DictA) EXCEPT !.firstChar = 23478, !.pc = "get"],
             MaxTasks)
    /\ UNCHANGED <<dictIndex, buckets, dataStoreCache, searchCache, now, engine, imported, last, ui>>

\* The get resolves: the cache record is written with Date.now() and the data returned
GetResolve(k) ==
    /\ At(k, "get", "get")
    /\ dataStoreCache' =
           CompleteGet([NewLookupState(0) EXCEPT !.cache = dataStoreCache],
                       tasks[k].name, tasks[k].firstChar).cache
    /\ Settle(k, [tasks[k] EXCEPT
                     !.data = StoreGet(DataKey(tasks[k].name, tasks[k].firstChar)),
                     !.pc = "done", !.status = "miss"])
    /\ UNCHANGED <<dictIndex, buckets, searchCache, now, engine, imported, last, ui>>

InitAsync ==
    \E bankB \in {<<>>, BankHouse} :
        /\ StoreIs(Installing(DictB, bankB, [dictIndex |-> <<>>, buckets |-> <<>>]))
        /\ dataStoreCache = <<>>
        /\ searchCache = <<>>
        /\ now = 0
        /\ engine = RuleEngine
        /\ imported = ImportedBy(DictB, bankB)
        /\ last = NoOp /\ tasks = <<>> /\ ui = NoUi

ImportStep ==
    \E k \in 1..Len(tasks), ok \in BOOLEAN :
        ImportIndex(k, ok) \/ ImportRegister(k, ok) \/ ImportGet(k, ok) \/ ImportSet(k, ok)

\* The steps of an import whose DataStore calls all resolve
ImportRuns ==
    \E k \in 1..Len(tasks) :
        ImportIndex(k, TRUE) \/ ImportRegister(k, TRUE) \/ ImportGet(k, TRUE)
            \/ ImportSet(k, TRUE)

DeleteStep ==
    \E k \in 1..Len(tasks) :
        DeleteIndex(k) \/ DeleteUnregister(k) \/ DeleteKeys(k) \/ DeleteMany(k)

GetStep == \E k \in 1..Len(tasks) : GetResolve(k)

SpecWrites == InitAsync /\ [][BeginImport \/ ImportStep \/ BeginDelete \/ DeleteStep]_vars

SpecStale == InitAsync /\ [][ImportA \/ ImportRuns \/ BeginGet \/ GetStep \/ Tick]_vars

----------------------------------------------------------------------------
(* Lookups in progress on a store that does not change: "A" may hold        *)
(* 家持【いえもち】 and "B" 家【いえ】.  lookupTerm of いえ or イエ is called     *)
(* while earlier calls are suspended at an await, every suspended call may  *)
(* be the next to go on, and time passes.  A call that is never taken up    *)
(* again is an abandoned one.                                               *)

MaxLookups == 2

\* lookupTerm(text) up to its first await: a fresh searchCache record is returned at
\* once, otherwise the call awaits getDictionaryIndex()
LookupCall(text) ==
    [op |-> "lookup", text |-> text, at |-> now, answers |-> <<>>, pend |-> NoPend,
     pc |-> IF SearchCacheHit(text) THEN "done" ELSE "index",
     status |-> IF SearchCacheHit(text) THEN "cached" ELSE "running",
     results |-> IF SearchCacheHit(text) THEN OmGet(searchCache, text).results ELSE <<>>]

BeginLookup ==
    /\ \E text \in {<<12356, 12360>>, <<12452, 12456>>} :
          Begin(LookupCall(text), MaxLookups)
    /\ UNCHANGED <<dictIndex, buckets, dataStoreCache, searchCache, now, engine, imported, last, ui>>

\* The lookup state with which call k goes on from the await it is suspended at
Resumed(k) ==
    [AfterIndexRead(0) EXCEPT !.mode = "step", !.skip = Len(tasks[k].answers),
                              !.answers = tasks[k].answers, !.pend = tasks[k].pend]

\* The call after the step: suspended at its next await ("error" is the stopped step)
\* or returned
Stepped(call, out) ==
    IF out.status = "error"
    THEN [call EXCEPT !.pc = "get", !.answers = out.answers, !.pend = out.pend]
    ELSE [call EXCEPT !.pc = "done", !.answers = out.answers, !.pend = NoPend,
                      !.status = out.status, !.results = out.results]

StepTo(k, out) ==
    /\ dataStoreCache' = out.dataStoreCache
    /\ searchCache' = out.searchCache
    /\ Settle(k, Stepped(tasks[k], out))
    /\ UNCHANGED <<dictIndex, buckets, now, engine, imported, last, ui>>

\* The await of call k resolves and the call runs to its next await or to its return
StepLookup ==
    \E k \in 1..Len(tasks) :
        /\ tasks[k].op = "lookup" /\ tasks[k].pc # "done"
        /\ StepTo(k, WithIndex(Resumed(k), tasks[k].text, OmKeys(getDictionaryIndex)))

InitLookups ==
    \E bankA \in {<<>>, SubSeq(TermsA, 4, 4)}, bankB \in {<<>>, BankHouse} :
        /\ StoreIs(Installing(DictB, bankB,
                       Installing(DictA, bankA, [dictIndex |-> <<>>, buckets |-> <<>>])))
        /\ dataStoreCache = <<>>
        /\ searchCache = <<>>
        /\ now = 0
        /\ engine = RuleEngine
        /\ imported = ImportedBy(DictA, bankA) \cup ImportedBy(DictB, bankB)
        /\ last = NoOp /\ tasks = <<>> /\ ui = NoUi

SpecLookups == InitLookups /\ [][BeginLookup \/ StepLookup \/ Tick]_vars

----------------------------------------------------------------------------
(* Term banks that repeat a record: the banks 家【いえ】, 家【いえ】 家【いえ】  *)
(* and 家持【いえもち】 家【や】 家持【いえもち】 are imported into "A" and "B",  *)
(* one after the other, and 家, 家持 and いえ are looked up.                    *)

BankTwice == BankHouse \o BankHouse
BankAgain == SubSeq(TermsA, 4, 4) \o SubSeq(TermsB, 2, 2) \o SubSeq(TermsA, 4, 4)

ImportRepeats ==
    /\ last.n < MaxOps
    /\ \E dictionaryName \in {DictA, DictB}, termBank \in {BankHouse, BankTwice, BankAgain} :
          ImportDictionary(dictionaryName, Parsed(termBank))

\* Lookups of 家, 家持 and いえ on what the store holds
LookupRepeats ==
    /\ last.n < MaxOps
    /\ \E text \in {<<23478>>, <<23478, 25345>>, <<12356, 12360>>} : Lookup(text, 0)

SpecRepeats == Init /\ [][ImportRepeats \/ LookupRepeats]_vars

(* The substring loop on inflected and stem texts: dictionary "A" holds up to   *)
(* MaxLoopBank of the entries たべます, 食べる【たべる】, たべま, 食べ【たべ】,       *)
(* 見せる【みせる】, 見る【みる】, 食べさせる【たべさせる】; the engine follows the   *)
(* suffix table, with or without the stem rule; one lookup of たべます, 食べます,   *)
(* 食べさせ, 見せ or 見 on cold caches.                                            *)
MaxLoopBank == 3

TermsLoop ==
    << Raw(<<12383, 12409, 12414, 12377>>, <<>>, 1, 1),
       Raw(<<39135, 12409, 12427>>, <<12383, 12409, 12427>>, 10, 1),
       Raw(<<12383, 12409, 12414>>, <<>>, 1, 1),
       Raw(<<39135, 12409>>, <<12383, 12409>>, 3, 1),
       Raw(<<35211, 12379, 12427>>, <<12415, 12379, 12427>>, 4, 1),
       Raw(<<35211, 12427>>, <<12415, 12427>>, 5, 1),
       Raw(<<39135, 12409, 12373, 12379, 12427>>,
           <<12383, 12409, 12373, 12379, 12427>>, 2, 1) >>

TextsLoop ==
    { <<12383, 12409, 12414, 12377>>, <<39135, 12409, 12414, 12377>>,
      <<39135, 12409, 12373, 12379>>, <<35211, 12379>>, <<35211>> }

InitLoop ==
    \E bankA \in BanksOf(TermsLoop, MaxLoopBank), e \in {RuleEngine, StemEngine} :
        /\ dictIndex = RegisterDictionary(<<>>, DictA)
        /\ buckets = processTermBank(DictA, bankA, <<>>)
        /\ dataStoreCache = <<>>
        /\ searchCache = <<>>
        /\ now = 0
        /\ engine = e
        /\ imported = ImportedBy(DictA, bankA)
        /\ last = NoOp /\ tasks = <<>> /\ ui = NoUi

ScanLoop == \E text \in TextsLoop : last.op = "none" /\ Lookup(text, 0)

SpecLoop == InitLoop /\ [][ScanLoop]_vars

(* searchByPartialReading called on its own: dictionary "A" holds up to        *)
(* MaxPartialBank of the entries 家持【いえもち】, 家【いえ】, イエ, 愛【あい】,      *)
(* アイ【あい】, あ|あ【あ】, あ【あ|あ】; one call with a query among いえ, イエ,    *)
(* いえも, あい, あ and a minimum match length of 1..MaxMinLength.                *)
MaxPartialBank == 3
MaxMinLength == 3

TermsPartial ==
    << Raw(<<23478, 25345>>, <<12356, 12360, 12418, 12385>>, 1, 1),
       Raw(<<23478>>, <<12356, 12360>>, 5, 1),
       Raw(<<12452, 12456>>, <<>>, 1, 1),
       Raw(<<24859>>, <<12354, 12356>>, 4, 1),
       Raw(<<12450, 12452>>, <<12354, 12356>>, 2, 1),
       Raw(<<12354, 124, 12354>>, <<12354>>, 1, 1),
       Raw(<<12354>>, <<12354, 124, 12354>>, 1, 1) >>

QueriesPartial ==
    { <<12356, 12360>>, <<12452, 12456>>, <<12356, 12360, 12418>>,
      <<12354, 12356>>, <<12354>> }

InitPartial ==
    \E bank \in BanksOf(TermsPartial, MaxPartialBank) :
        /\ dictIndex = RegisterDictionary(<<>>, DictA)
        /\ buckets = processTermBank(DictA, bank, <<>>)
        /\ dataStoreCache = <<>>
        /\ searchCache = <<>>
        /\ now = 0
        /\ engine = RuleEngine
        /\ imported = ImportedBy(DictA, bank)
        /\ last = NoOp /\ tasks = <<>> /\ ui = NoUi

\* The call has returned out = [st, entries]
PartialReturned(dictionaryName, searchTerm, minMatchLength, out) ==
    /\ dataStoreCache' = out.st.cache
    /\ last' = Record("partial", searchTerm, <<>>, "returned", out.entries, <<>>,
                      out.st.reads, 0, <<>>)
                @@ [dictionaryName |-> dictionaryName, minMatchLength |-> minMatchLength]
    /\ UNCHANGED <<tasks, dictIndex, buckets, searchCache, now, engine, imported, ui>>

\* One call of searchByPartialReading(dictionaryName, searchTerm, minMatchLength)
PartialSearch ==
    /\ last.op = "none"
    /\ \E searchTerm \in QueriesPartial, minMatchLength \in 1..MaxMinLength :
          PartialReturned(DictA, searchTerm, minMatchLength,
                          searchByPartialReading(NewLookupState(0), DictA, searchTerm,
                                                 minMatchLength))

SpecPartial == InitPartial /\ [][PartialSearch]_vars

(* The hover interface on dictionary "A" = 家【いえ】 愛【あい】: debounced mouse   *)
(* moves over four positions with the scan key down or up, key and window       *)
(* events, clicks outside the tooltips and on the close button, the lookups     *)
(* of the handlers resolving in any order, and the removal timers firing in     *)
(* the order set.  A handler awaiting its lookup is a record of tasks; its      *)
(* fields cancelled and overlapped are history: the key was released, the       *)
(* window lost focus or hideAllTooltips ran while it was awaiting, and          *)
(* another handler was awaiting during its own await.                           *)
MaxHovers == 2
MaxContainers == 2
MaxTimers == 1

\* The caches are as lookups of 家, 愛 and あ at time 0 leave them
WarmCache(chars) ==
    [i \in 1..Len(chars) |->
        [k |-> CacheKey(DictA, chars[i]),
         v |-> [data |-> StoreGet(DataKey(DictA, chars[i])), timestamp |-> now]]]

InitHover ==
    /\ now = 0
    /\ dictIndex = RegisterDictionary(<<>>, DictA)
    /\ buckets = processTermBank(DictA, BankHouse \o SubSeq(TermsA, 6, 6), <<>>)
    /\ dataStoreCache = WarmCache(<<23478, 24859, 12354>>)
    /\ searchCache = SearchCacheStore(<<>>, <<12354>>, <<>>)
    /\ engine = RuleEngine
    /\ imported = ImportedBy(DictA, BankHouse \o SubSeq(TermsA, 6, 6))
    /\ last = NoOp /\ tasks = <<>> /\ ui = NoUi

Event == [op |-> "event"]

\* The awaiting handlers after a handler ran that left U
Marked(U, abort) ==
    [k \in 1..Len(tasks) |->
        [tasks[k] EXCEPT !.cancelled = @ \/ U.hid \/ abort]]

WithinBounds(U) == Len(U.containers) <= MaxContainers /\ Len(U.timers) <= MaxTimers

\* A handler without await has run and left U
Handled(U, abort) ==
    /\ WithinBounds(U)
    /\ ui' = [U EXCEPT !.hid = FALSE]
    /\ tasks' = Marked(U, abort)
    /\ last' = Event
    /\ UNCHANGED <<dictIndex, buckets, dataStoreCache, searchCache, now, engine, imported>>

Hover(out) ==
    [op |-> "hover", text |-> out.text, tooltip |-> out.tooltip, cancelled |-> FALSE,
     overlapped |-> tasks # <<>>]

\* handleMouseMoveDebounced has run to its await
Suspended(out) ==
    /\ WithinBounds(out.ui) /\ Len(tasks) < MaxHovers
    /\ ui' = [out.ui EXCEPT !.hid = FALSE]
    /\ tasks' = Append([k \in 1..Len(tasks) |->
                           [Marked(out.ui, FALSE)[k] EXCEPT !.overlapped = TRUE]],
                       Hover(out))
    /\ last' = Event
    /\ UNCHANGED <<dictIndex, buckets, dataStoreCache, searchCache, now, engine, imported>>

MouseMoved(out) == IF out.awaits THEN Suspended(out) ELSE Handled(out.ui, FALSE)

\* The debounce timer of handleMouseMove fires
MouseMove ==
    \E pos \in 1..4, key \in BOOLEAN :
        MouseMoved(handleMouseMoveDebounced(ui, [pos |-> pos, key |-> key]))

KeyUp == Handled(handleKeyUp(ui), TRUE)
KeyDown == ~ui.isKeyPressed /\ Handled(handleKeyDown(ui), FALSE)
WindowBlur == Handled(handleWindowBlur(ui), TRUE)
WindowFocus == Handled(handleWindowFocus(ui), FALSE)

\* globalClickHandler: a mousedown outside every tooltip with the scan key up
ClickOutside == ui.globalClickHandler /\ Handled(hideAllTooltips(ui), FALSE)

\* closeButton.onclick of the tooltip of level 0
CloseButton == OmHas(ui.tooltips, 0) /\ Handled(hideTooltipsAtLevel(ui, 0), FALSE)

\* The first timer fires
TimerFires ==
    /\ ui.timers # <<>>
    /\ ui' = IF ui.timers[1].kind = "all" THEN RemoveAll(ui) ELSE RemoveOne(ui, ui.timers[1])
    /\ last' = [op |-> "timer", kind |-> ui.timers[1].kind,
                removed |-> IF ui.timers[1].kind = "all" THEN Displayed(ui)
                            ELSE {ui.timers[1].id},
                targets |-> ui.timers[1].targets]
    /\ UNCHANGED <<tasks, dictIndex, buckets, dataStoreCache, searchCache, now, engine,
                   imported>>

Without(seq, k) == SubSeq(seq, 1, k - 1) \o SubSeq(seq, k + 1, Len(seq))

\* The handler of tasks[k] has run from its await to its end and left U
Resumes(k, out, U) ==
    /\ WithinBounds(U)
    /\ ui' = [U EXCEPT !.hid = FALSE]
    /\ tasks' = Without(Marked(U, FALSE), k)
    /\ dataStoreCache' = out.dataStoreCache
    /\ searchCache' = out.searchCache
    /\ last' = [op |-> "resolve", arg |-> tasks[k].text,
                rendered |-> ~ui.pendingLookupAborted /\ Len(out.results) > 0,
                cancelled |-> tasks[k].cancelled, overlapped |-> tasks[k].overlapped]
    /\ UNCHANGED <<dictIndex, buckets, now, engine, imported>>

Resolved(k, out) ==
    Resumes(k, out, AfterLookup(ui, tasks[k].text, tasks[k].tooltip, out.results))

\* lookupTerm(longestText) resolves for one of the awaiting handlers
LookupResolves == \E k \in 1..Len(tasks) : Resolved(k, lookupTerm(tasks[k].text, 0))

SpecHover ==
    InitHover /\ [][MouseMove \/ KeyUp \/ KeyDown \/ WindowBlur \/ WindowFocus
                    \/ ClickOutside \/ CloseButton \/ TimerFires \/ LookupResolves]_vars

----------------------------------------------------------------------------
(* Properties of one lookup *)

\* The last operation was a lookup that returned a list
Returned == last.op = "lookup" /\ last.status \in {"cached", "main", "fallback"}

\* ... and it ran with nothing usable in either cache
ColdCaches(l) ==
    /\ \A n \in 1..Len(l.pre.searchCache) :
          l.at - l.pre.searchCache[n].v.timestamp >= CACHE_TTL
    /\ \A n \in 1..Len(l.pre.dataStoreCache) :
          l.at - l.pre.dataStoreCache[n].v.timestamp >= DATASTORE_CACHE_TTL

ReturnedCold == Returned /\ ColdCaches(last)

\* The returned list contains the entry of that identity
Returns(e) ==
    \E n \in 1..Len(last.results) :
        /\ last.results[n].term = e.term
        /\ last.results[n].reading = e.reading
        /\ last.results[n].dictionary = e.dictionary

\* The variants the loop searches for the prefix of a text of a given length
VariantsOf(text, length) ==
    {Substring(text, length), convertKatakanaToHiragana(Substring(text, length))}

\* The deinflection candidates the loop searches for that prefix
CandidatesOf(text, length) ==
    LET C == SubstringContext(text, <<>>, length)
        all == AllDeinflections(C.searchVariants, 1, <<>>)
    IN  {all[n] : n \in 1..Len(all)} \ VariantsOf(text, length)

Installed(e) == e \in imported /\ OmHas(dictIndex, e.dictionary)

\* The term or the reading of e is the prefix of that length, or its hiragana form
DirectAt(e, text, length) ==
    e.term \in VariantsOf(text, length) \/ e.reading \in VariantsOf(text, length)

\* The recorded matches of an identity, and its positions in the returned list
MatchesOf(e) ==
    {n \in 1..Len(last.rwl) :
        /\ last.rwl[n].entry.term = e.term
        /\ last.rwl[n].entry.reading = e.reading
        /\ last.rwl[n].entry.dictionary = e.dictionary}
PositionsOf(e) ==
    {n \in 1..Len(last.results) :
        /\ last.results[n].term = e.term
        /\ last.results[n].reading = e.reading
        /\ last.results[n].dictionary = e.dictionary}
Before(x, y) == \A i \in PositionsOf(x), j \in PositionsOf(y) : i < j
RecordOf(e) == last.rwl[CHOOSE n \in MatchesOf(e) : TRUE]

\* The last operation was a lookup that returned the ranked list of the main path
RankedLookup == last.op = "lookup" /\ last.status = "main"

\* C1: for every entry e imported into an installed dictionary D, a cold lookup of
\* e.term returns a list that contains an entry with e's term, reading and dictionary.
C1_TermLookupFindsEntry ==
    ReturnedCold =>
        \A e \in imported : Installed(e) /\ e.term = last.arg => Returns(e)

\* The entry is found by deinflecting the full text, which no installed entry matches
DeinflectsTo(e) ==
    /\ Installed(e)
    /\ \A x \in imported : Installed(x) => ~DirectAt(x, last.arg, Len(last.arg))
    /\ \E c \in CandidatesOf(last.arg, Len(last.arg)) : e.term = c \/ e.reading = c

\* C2: if no entry matches the full text directly and a deinflection candidate
\* of the full text is the term or the reading of an installed entry, the lookup
\* returns that entry, whatever matches the shorter prefixes.
C2_DeinflectedAlwaysReturned ==
    ReturnedCold => \A e \in imported : DeinflectsTo(e) => Returns(e)

\* C3: of two returned entries that are both exact matches (the term or the reading is
\* the prefix they were matched at), the one matched at the longer prefix comes first,
\* whatever the scores.
C3_LongerExactFirst ==
    RankedLookup =>
        \A i, j \in 1..Len(last.results) :
            LET a == RecordOf(last.results[i])
                b == RecordOf(last.results[j])
            IN  /\ DirectAt(a.entry, last.arg, a.originalTextLength)
                /\ DirectAt(b.entry, last.arg, b.originalTextLength)
                /\ a.originalTextLength > b.originalTextLength
                => i < j

OnlyByDeinflectionAt(y, text, length) ==
    /\ y.reading \in CandidatesOf(text, length)
    /\ \A k \in 1..Len(text) :
          /\ ~DirectAt(y, text, k)
          /\ k # length => y.term \notin CandidatesOf(text, k) /\ y.reading \notin CandidatesOf(text, k)

\* The exact pass accepts the entry for the prefix of that length as an exact match
DirectExactAt(x, text, length) ==
    \/ x.term \in VariantsOf(text, length)
    \/ HasKanji(x.term) /\ x.reading \in VariantsOf(text, length)

C8_ReadingLookupFindsEntry ==
    ReturnedCold =>
        \A e \in imported :
            Installed(e) /\ e.reading # e.term /\ e.reading = last.arg => Returns(e)

\* The prefix lengths of the looked-up text that are a term or a reading of an
\* installed entry
DirectLengths ==
    {k \in 1..Len(last.arg) : \E e \in imported : Installed(e) /\ DirectAt(e, last.arg, k)}

\* No deinflection candidate of any prefix is a term or a reading of an installed entry
NoCandidateMatches ==
    \A k \in 1..Len(last.arg) : \A c \in CandidatesOf(last.arg, k) :
        \A e \in imported : Installed(e) => e.term # c /\ e.reading # c

\* The returned entry was recorded at that length, or its term or reading is that prefix
MatchedAt(r, k) ==
    \/ \E n \in MatchesOf(r) : last.rwl[n].originalTextLength = k
    \/ DirectAt(r, last.arg, k)

\* C15: when exactly one prefix of the text, shorter than the text, is a term or a
\* reading of an installed entry and no deinflection candidate matches, the lookup
\* returns a non-empty list of entries matched at that length.
C15_OnlyPrefixReturned ==
    ReturnedCold =>
        \A k \in 1..(Len(last.arg) - 1) :
            (DirectLengths = {k} /\ NoCandidateMatches) =>
                /\ last.results # <<>>
                /\ \A n \in 1..Len(last.results) : MatchedAt(last.results[n], k)

\* The prefix lengths at which some match was recorded as exact
ExactLengths ==
    {last.rwl[n].originalTextLength :
        n \in {m \in 1..Len(last.rwl) : last.rwl[m].readingExactMatch}}

\* The recorded matches the filter is to keep, and those of them that are the entry e
KeptMatches == {n \in 1..Len(last.rwl) : last.rwl[n].originalTextLength \in ExactLengths}
KeptMatchesOf(e) == {n \in KeptMatches : last.rwl[n].entry = e}

RankKey(r, text, k) ==
    CASE k = 1 -> IF r.readingExactMatch THEN 0 ELSE 1
      [] k = 2 -> 0 - r.originalTextLength
      [] k = 3 -> IF r.entry.reading # r.entry.term THEN 0 ELSE 1
      [] k = 4 -> IF r.fromDeinflection THEN 0 ELSE 1
      [] k = 5 -> Len(r.entry.term)
      [] k = 6 -> IF r.entry.reading = Substring(text, r.originalTextLength) THEN 0 ELSE 1
      [] k = 7 -> 0 - r.entry.score

\* The two matches differ on key k
KeyDiffers(a, b, text, k) ==
    /\ RankKey(a, text, k) # RankKey(b, text, k)
    /\ k = 5 => a.entry.reading = b.entry.reading

\* a wins over b on the first key on which they differ
WinsOver(a, b, text) ==
    \E k \in 1..7 :
        /\ KeyDiffers(a, b, text, k)
        /\ RankKey(a, text, k) < RankKey(b, text, k)
        /\ \A h \in 1..(k - 1) : ~KeyDiffers(a, b, text, h)

\* The entry returned at position i with the tags the ranking attaches to it
MatchOfResult(i) == ResultInfo(last.rwl, last.results[i])

\* C17: in the list returned by the main path, no entry comes after an entry over
\* which it wins on the first of the seven ranking keys on which the two differ.
C17_OrderedBySevenKeys ==
    (ReturnedCold /\ last.status = "main") =>
        \A i, j \in 1..Len(last.results) :
            i < j => ~WinsOver(MatchOfResult(j), MatchOfResult(i), last.arg)

\* The comparator puts a before b, and neither before the other
Precedes(a, b) == Compare(a, b, last.arg) < 0
Ties(a, b) == ~Precedes(a, b) /\ ~Precedes(b, a)

\* The relation is a strict weak order on the tagged matches in info
StrictWeakOrderOn(info) ==
    \A i, j, k \in 1..Len(info) :
        /\ Precedes(info[i], info[j]) => ~Precedes(info[j], info[i])
        /\ Precedes(info[i], info[j]) /\ Precedes(info[j], info[k])
               => Precedes(info[i], info[k])
        /\ Ties(info[i], info[j]) /\ Ties(info[j], info[k]) => Ties(info[i], info[k])

\* C18: on the tagged matches that a lookup sorts, the comparator is a strict weak
\* order: asymmetric, transitive, and with transitive ties.
C18_StrictWeakOrder ==
    (ReturnedCold /\ last.status = "main") =>
        StrictWeakOrderOn(WithInfo(last.rwl, FilterResults(last.rwl, last.arg)))

\* C19: every match recorded outside deinflection at a prefix length is tagged exact
\* exactly when its term or its reading is that prefix of the text or its hiragana form.
C19_DirectTaggedExactIffEqual ==
    (last.op = "lookup" /\ last.status \in {"main", "fallback"}) =>
        \A n \in 1..Len(last.rwl) :
            ~last.rwl[n].fromDeinflection =>
                (last.rwl[n].readingExactMatch
                    <=> DirectAt(last.rwl[n].entry, last.arg, last.rwl[n].originalTextLength))

\* The recorded match r is one that the exact pass or the deinflection pass accepts
\* by itself at its length: by its term or reading against a variant of the prefix,
\* or by equality with a deinflection candidate
SelfMatched(r, text) ==
    \/ \E v \in VariantsOf(text, r.originalTextLength) :
           IF HasKanji(r.entry.term)
           THEN r.entry.term = v \/ StartsWith(r.entry.reading, v)
           ELSE StartsWith(r.entry.term, v)
    \/ \E c \in CandidatesOf(text, r.originalTextLength) :
           r.entry.term = c \/ r.entry.reading = c

\* Every installed entry with the term of the recorded match r is recorded at r's length
AllReadingsRecorded(r) ==
    \A e \in imported :
        (Installed(e) /\ e.term = r.entry.term) =>
            \E m \in MatchesOf(e) : last.rwl[m].originalTextLength = r.originalTextLength

\* C20: in a lookup of a text with kanji that returns on the main path, every
\* installed entry that has the term of a recorded match with kanji is recorded, at
\* the length of that match; in a lookup of a text without kanji every recorded
\* match is one the exact pass or the deinflection pass accepts by itself.
C20_CrossReadingExpansion ==
    (ReturnedCold /\ last.status = "main") =>
        \A n \in 1..Len(last.rwl) :
            IF HasKanji(last.arg)
            THEN HasKanji(last.rwl[n].entry.term) => AllReadingsRecorded(last.rwl[n])
            ELSE SelfMatched(last.rwl[n], last.arg)

\* A lookup of a text with kanji recorded, at the length of a match of a term with
\* kanji, an entry of that term that neither pass accepts by itself
C20_Witness ==
    /\ ReturnedCold /\ last.status = "main" /\ HasKanji(last.arg)
    /\ \E n \in 1..Len(last.rwl) :
           /\ HasKanji(last.rwl[n].entry.term)
           /\ ~SelfMatched(last.rwl[n], last.arg)
           /\ AllReadingsRecorded(last.rwl[n])

\* The hiragana form of the reading of e equals, is a prefix of, or extends the
\* hiragana form of the looked-up text
ReadingRelated(e) ==
    \/ StartsWith(convertKatakanaToHiragana(last.arg), convertKatakanaToHiragana(e.reading))
    \/ StartsWith(convertKatakanaToHiragana(e.reading), convertKatakanaToHiragana(last.arg))

\* The partial-reading search of the text finds e: its reading lies in the bucket of
\* the first character of the hiragana form of the text and shares two characters
\* or more with it
PartiallyFound(e) ==
    /\ Installed(e)
    /\ e.reading[1] = convertKatakanaToHiragana(last.arg)[1]
    /\ Len(getCommonPrefix(convertKatakanaToHiragana(last.arg),
                           convertKatakanaToHiragana(e.reading))) >= 2

\* The last operation was a cold lookup that returned from the fallback pass
FallbackLookup == ReturnedCold /\ last.status = "fallback" /\ Len(last.arg) >= 2

\* C21: a lookup that ends in the fallback pass returns exactly the entries found by
\* the partial-reading search whose hiragana reading equals, is a prefix of, or
\* extends the hiragana form of the text.
C21_FallbackAcceptsNormalized ==
    FallbackLookup =>
        /\ \A e \in imported : (PartiallyFound(e) /\ ReadingRelated(e)) => Returns(e)
        /\ \A n \in 1..Len(last.results) : ReadingRelated(last.results[n])

\* C22: when a lookup of a text with kanji ends in the fallback pass, the returned
\* list contains, for every returned entry whose term has kanji, every installed
\* entry with that term.
C22_FallbackExpansionReturned ==
    (FallbackLookup /\ HasKanji(last.arg)) =>
        \A n \in 1..Len(last.results) :
            HasKanji(last.results[n].term) =>
                \A e \in imported :
                    (Installed(e) /\ e.term = last.results[n].term) => Returns(e)

----------------------------------------------------------------------------
(* Properties of the plugin in use *)

\* The operation before the last one was a lookup of the same text that returned a list,
\* and no read of the last one was made to fail
RepeatedLookup ==
    /\ last.op = "lookup" /\ last.failAt = 0
    /\ last.prev.op = "lookup" /\ last.prev.arg = last.arg
    /\ last.prev.status \in {"cached", "main", "fallback"}

\* C6: of two lookups of one text less than CACHE_TTL apart, the second returns the
\* list of the first without reading the store; one made after CACHE_TTL reads the store.
C6_RepeatServedFromCache ==
    RepeatedLookup =>
        IF last.at - last.prev.at < CACHE_TTL
        THEN /\ last.status \in {"cached", "main", "fallback"}
             /\ last.results = last.prev.results
             /\ last.reads = 0
        ELSE last.reads > 0

\* The entries of dictionary D stored under index key k that have the term and reading of e
StoredCopies(dictionaryName, k, e) ==
    LET data == StoreGet(DataKey(dictionaryName, k[1]))
        list == IF data.def /\ OmHas(data.val, k) THEN OmGet(data.val, k) ELSE <<>>
    IN  {n \in 1..Len(list) : list[n].term = e.term /\ list[n].reading = e.reading}

\* C7: a raw record imported into one dictionary by two successive imports is stored
\* exactly once under each of its index keys.
C7_ReimportKeepsOneCopy ==
    (last.op = "import" /\ last.prev.op = "import" /\ last.prev.arg = last.arg) =>
        \A i \in 1..Len(last.bank) :
            (\E j \in 1..Len(last.prev.bank) : last.prev.bank[j] = last.bank[i]) =>
                /\ Cardinality(StoredCopies(last.arg, MakeEntry(last.bank[i]).term,
                                            MakeEntry(last.bank[i]))) = 1
                /\ Cardinality(StoredCopies(last.arg, MakeEntry(last.bank[i]).reading,
                                            MakeEntry(last.bank[i]))) = 1

\* The dictionary a bucket key was written for: the key without the prefix, the
\* separator and the one leading character at its end
OwnerOf(key) == SubSeq(key, Len(DICTIONARY_KEY) + 2, Len(key) - 2)

\* The bucket keys whose dictionary is not in the index
Orphans(index, bucketKeys) == {key \in bucketKeys : ~OmHas(index, OwnerOf(key))}

\* C9: after deleteDictionary(D) of an installed D, run with no orphan in the store, D is
\* not in the index, no bucket of D is stored, and findOrphanedDictionaryKeys() is empty.
C9_DeleteLeavesNoOrphan ==
    (/\ last.op = "delete"
     /\ OmHas(last.pre.dictIndex, last.arg)
     /\ Orphans(last.pre.dictIndex, DOMAIN last.pre.buckets) = {}) =>
        /\ ~OmHas(dictIndex, last.arg)
        /\ \A key \in DOMAIN buckets : OwnerOf(key) # last.arg
        /\ findOrphanedDictionaryKeys = {}

\* A read of the last lookup was rejected
FailedLookup == last.op = "lookup" /\ last.failAt >= 1 /\ last.reads >= last.failAt

\* C10: a lookup of which a store read fails is rejected, writes no searchCache record
\* and no dataStoreCache record for the key of the failed read; a lookup whose reads
\* all resolve, to a bucket or to undefined, is not rejected.
C10_FailurePropagates ==
    /\ FailedLookup =>
          /\ last.status = "error"
          /\ searchCache = last.pre.searchCache
          /\ OmHas(dataStoreCache, last.failedKey) =>
                /\ OmHas(last.pre.dataStoreCache, last.failedKey)
                /\ OmGet(dataStoreCache, last.failedKey)
                      = OmGet(last.pre.dataStoreCache, last.failedKey)
    /\ (last.op = "lookup" /\ ~FailedLookup) => last.status # "error"

\* A bucket read was rejected while another read of the same lookup found its bucket
\* missing and cached undefined for it
C10_Witness ==
    /\ FailedLookup
    /\ last.failedKey # DICTIONARY_INDEX_KEY
    /\ last.pre.dataStoreCache = <<>>
    /\ \E n \in 1..Len(dataStoreCache) : ~dataStoreCache[n].v.data.def

\* C11: an import whose parsed payload is not an array returns a failure and writes
\* neither the dictionary index nor any bucket.
C11_NonArrayRejected ==
    (last.op = "import" /\ last.kind # "array") =>
        /\ last.status = "failure"
        /\ dictIndex = last.pre.dictIndex
        /\ buckets = last.pre.buckets

\* A non-array payload was imported under a name not yet installed, into a store that
\* holds another dictionary
C11_Witness ==
    /\ last.op = "import" /\ last.kind # "array"
    /\ last.pre.dictIndex # <<>>
    /\ ~OmHas(last.pre.dictIndex, last.arg)

\* The stored bucket keys that were written for dictionary D
BucketsOf(D, bk) == {key \in DOMAIN bk : key = DataKey(D, key[Len(key)])}

\* C24: deleteDictionary(D) leaves the index record and every stored bucket of every
\* other installed dictionary as they were.
C24_DeleteTouchesOnlyItsOwn ==
    last.op = "delete" =>
        \A i \in 1..Len(last.pre.dictIndex) :
            last.pre.dictIndex[i].k # last.arg =>
                /\ OmHas(dictIndex, last.pre.dictIndex[i].k)
                /\ OmGet(dictIndex, last.pre.dictIndex[i].k) = last.pre.dictIndex[i].v
                /\ \A key \in BucketsOf(last.pre.dictIndex[i].k, last.pre.buckets) :
                       key \in DOMAIN buckets /\ buckets[key] = last.pre.buckets[key]

\* C25: findOrphanedDictionaryKeys() is the set of stored bucket keys whose dictionary
\* is not in the index; cleanupOrphanedDictionaryKeys() leaves the index and the
\* buckets of the installed dictionaries as they were and leaves no orphan.
C25_OrphansExactlyFound ==
    /\ findOrphanedDictionaryKeys = Orphans(dictIndex, DOMAIN buckets)
    /\ last.op = "cleanup" =>
          /\ dictIndex = last.pre.dictIndex
          /\ \A key \in DOMAIN last.pre.buckets :
                 OmHas(dictIndex, OwnerOf(key)) =>
                     key \in DOMAIN buckets /\ buckets[key] = last.pre.buckets[key]
          /\ Orphans(dictIndex, DOMAIN buckets) = {}

\* C27: every entry that a lookup returns is of a dictionary that is in the index
\* when the lookup is called.
C27_ReturnedAreInstalled ==
    Returned =>
        \A n \in 1..Len(last.results) :
            OmHas(last.pre.dictIndex, last.results[n].dictionary)

\* Every entry of bucket b is, under its index key, an entry of bucket c
BucketKept(b, c) ==
    \A i \in 1..Len(b) :
        /\ OmHas(c, b[i].k)
        /\ \A n \in 1..Len(b[i].v) :
               \E m \in 1..Len(OmGet(c, b[i].k)) : OmGet(c, b[i].k)[m] = b[i].v[n]

\* C30: a successful import into D keeps every entry that a bucket of D held under
\* each of its index keys, and writes no bucket of another dictionary.
C30_ImportOnlyAdds ==
    (last.op = "import" /\ last.status = "success") =>
        /\ \A key \in DOMAIN last.pre.buckets :
               /\ key \in DOMAIN buckets
               /\ IF key \in BucketsOf(last.arg, last.pre.buckets)
                  THEN BucketKept(last.pre.buckets[key], buckets[key])
                  ELSE buckets[key] = last.pre.buckets[key]
        /\ \A key \in DOMAIN buckets :
               key \notin DOMAIN last.pre.buckets => key \in BucketsOf(last.arg, buckets)

\* The exact pass of the given length recorded an exact match that is not from
\* deinflection: such a record precedes every deinflection record of that length
ExactPassMatched(length) ==
    \E n \in 1..Len(last.rwl) :
        /\ last.rwl[n].originalTextLength = length
        /\ last.rwl[n].readingExactMatch
        /\ ~last.rwl[n].fromDeinflection
        /\ \A m \in 1..(n - 1) :
              ~(last.rwl[m].originalTextLength = length /\ last.rwl[m].fromDeinflection)

C33_NoShortAfterLong ==
    ReturnedCold =>
        ((\E n \in 1..Len(last.rwl) : last.rwl[n].originalTextLength >= 3)
            => \A n \in 1..Len(last.rwl) : last.rwl[n].originalTextLength >= 3)

\* The lookup recorded matches and none of them is exact
NoneExact ==
    /\ last.rwl # <<>>
    /\ \A n \in 1..Len(last.rwl) : ~last.rwl[n].readingExactMatch

\* A recorded match of length 1 beside a recorded match of a greater length
ShortBesideLonger(n) ==
    /\ last.rwl[n].originalTextLength = 1
    /\ \E m \in 1..Len(last.rwl) : last.rwl[m].originalTextLength > 1

C35_NoDuplicateResults ==
    Returned =>
        \A i \in 1..Len(last.results), j \in 1..Len(last.results) :
            (/\ last.results[i].dictionary = last.results[j].dictionary
             /\ last.results[i].term = last.results[j].term
             /\ last.results[i].reading = last.results[j].reading) => i = j

\* 家持 looked up while a bucket holds 家持【いえもち】 twice in one list: the exact
\* pass and the cross-reading expansion both meet the two copies, one is returned
C35_Witness ==
    /\ Returned /\ last.status = "main"
    /\ last.arg = <<23478, 25345>>
    /\ \E key \in DOMAIN buckets :
          \E i \in 1..Len(buckets[key]) :
              \E m \in 1..Len(buckets[key][i].v), n \in 1..Len(buckets[key][i].v) :
                  /\ m # n
                  /\ buckets[key][i].v[m].term = <<23478, 25345>>
                  /\ buckets[key][i].v[n].term = <<23478, 25345>>
    /\ \E i \in 1..Len(last.results) : last.results[i].term = <<23478, 25345>>

\* The last operation was a call of searchByPartialReading
PartialCall == last.op = "partial"

\* The normalized query, and the entries of the bucket of its leading character
QueryReading == convertKatakanaToHiragana(last.arg)
LeadingBucket ==
    IF DataKey(last.dictionaryName, QueryReading[1]) \in DOMAIN buckets
    THEN BucketEntries(buckets[DataKey(last.dictionaryName, QueryReading[1])], 1)
    ELSE <<>>

\* The entry's normalized reading shares at least minMatchLength leading characters
\* with some prefix of the normalized query that has at least that length
SharesPrefix(entry) ==
    \E prefixLength \in last.minMatchLength..Len(QueryReading) :
        Len(getCommonPrefix(Substring(QueryReading, prefixLength),
                            convertKatakanaToHiragana(entry.reading))) >= last.minMatchLength

\* commonPrefixLength * 1000 + prefixLength at the longest prefix, the first one tried
RelevanceScore(entry) ==
    Len(getCommonPrefix(QueryReading, convertKatakanaToHiragana(entry.reading))) * 1000
        + Len(QueryReading)

\* C36: searchByPartialReading returns the empty list when the normalized query is
\* shorter than minLength; otherwise the returned list holds, once per (term,
\* reading), exactly the entries of the leading-character bucket that share a prefix
\* of at least minLength characters with the query, by descending relevance score.
C36_PartialReadingContract ==
    PartialCall =>
        IF Len(QueryReading) < last.minMatchLength THEN last.results = <<>>
        ELSE /\ \A n \in 1..Len(LeadingBucket) :
                   SharesPrefix(LeadingBucket[n]) <=>
                       \E i \in 1..Len(last.results) :
                           /\ last.results[i].term = LeadingBucket[n].term
                           /\ last.results[i].reading = LeadingBucket[n].reading
             /\ \A i \in 1..Len(last.results) :
                   \E n \in 1..Len(LeadingBucket) : LeadingBucket[n] = last.results[i]
             /\ \A i \in 1..Len(last.results), j \in 1..Len(last.results) :
                   (/\ last.results[i].term = last.results[j].term
                    /\ last.results[i].reading = last.results[j].reading) => i = j
             /\ \A i \in 1..Len(last.results), j \in 1..Len(last.results) :
                   i < j => RelevanceScore(last.results[i]) >= RelevanceScore(last.results[j])

\* C31: no list stored under an index key of a bucket holds two entries with the same
\* (term, reading).
C31_NoDuplicatePairs ==
    \A key \in DOMAIN buckets :
        \A i \in 1..Len(buckets[key]) :
            \A m \in 1..Len(buckets[key][i].v), n \in 1..Len(buckets[key][i].v) :
                (/\ buckets[key][i].v[m].term = buckets[key][i].v[n].term
                 /\ buckets[key][i].v[m].reading = buckets[key][i].v[n].reading) => m = n

----------------------------------------------------------------------------
(* Properties of the hover interface *)

\* C37: the lookup of a handler that was awaiting when the scan key was released, the
\* window lost focus or the tooltips were hidden is not rendered when it resolves.
C37_AbandonedNeverRendered ==
    (last.op = "resolve" /\ last.cancelled) => ~last.rendered

\* The content of the tooltip of level 0
Shown == ui.containers[OmGet(ui.tooltips, 0)].content

\* C38: when a handler whose await overlapped another's resolves last, the tooltip
\* shows the results for currentText, the text of the lookup started last.
C38_LaterLookupWins ==
    (/\ last.op = "resolve" /\ last.overlapped /\ tasks = <<>>
     /\ ui.currentText # NoText
     /\ OmHas(ui.tooltips, 0))
        => (Shown.kind = "results" => Shown.text = ui.currentText)

\* C39: the delayed cleanup of a hideAllTooltips call removes only containers that
\* were displayed at the call and have not been shown again since.
C39_CleanupRemovesOnlyHidden ==
    (last.op = "timer" /\ last.kind = "all") => last.removed \subseteq last.targets

----------------------------------------------------------------------------
(* Properties of calls in progress *)

Finished(k) == tasks[k].pc = "done"

ImportOf(k, dictionaryName) == tasks[k].op = "import" /\ tasks[k].name = dictionaryName

\* An import of the name has returned { success: true }, now or before the start
ImportedOnce(dictionaryName) ==
    \/ \E e \in imported : e.dictionary = dictionaryName
    \/ \E k \in 1..Len(tasks) : ImportOf(k, dictionaryName) /\ tasks[k].status = "success"

\* C23: once no import of a name is in progress, the name is in the index only if an
\* import of it has completed successfully.
C23_IndexedOnlyAfterSuccess ==
    \A n \in 1..Len(dictIndex) :
        (\A k \in 1..Len(tasks) : ImportOf(k, dictIndex[n].k) => Finished(k))
            => ImportedOnce(dictIndex[n].k)

\* C26: when a successful import of "A" and an import or a delete of "B" have both
\* finished, "A" is in the index.
C26_NoLostIndexUpdate ==
    (/\ Len(tasks) = 2
     /\ \A k \in 1..2 : Finished(k)
     /\ \E k \in 1..2 : ImportOf(k, DictA) /\ tasks[k].status = "success"
     /\ \E k \in 1..2 : tasks[k].name = DictB)
        => OmHas(dictIndex, DictA)

\* The times at which a finished store write has written the key
WriteTimes(key) ==
    UNION {{tasks[k].log[j].at :
               j \in {n \in 1..Len(tasks[k].log) : key \in tasks[k].log[n].keys}} :
           k \in 1..Len(tasks)}

GetOf(k) == tasks[k].op = "get" /\ Finished(k)

BucketOf(k) == DataKey(tasks[k].name, tasks[k].firstChar)

\* The get was issued 10 s or more after the last write of its bucket by an import
IssuedAfterWindow(k) ==
    /\ WriteTimes(BucketOf(k)) # {}
    /\ \A t \in WriteTimes(BucketOf(k)) : tasks[k].at >= t + DATASTORE_CACHE_TTL

\* C29: a bucket cache get issued 10 s or more after an import last wrote the bucket
\* returns the bucket the import left, whatever gets were in flight during the import.
C29_StalenessBounded ==
    \A k \in 1..Len(tasks) :
        (GetOf(k) /\ IssuedAfterWindow(k)) => tasks[k].data = StoreGet(BucketOf(k))

\* A get in flight during the import returned the bucket as it was before, and a
\* later get, issued after the window, has returned
C29_Witness ==
    \E k1 \in 1..Len(tasks), k2 \in 1..Len(tasks) :
        /\ GetOf(k1) /\ tasks[k1].status = "miss"
        /\ tasks[k1].data # StoreGet(BucketOf(k1))
        /\ \E t \in WriteTimes(BucketOf(k1)) : tasks[k1].at <= t
        /\ GetOf(k2) /\ IssuedAfterWindow(k2)

----------------------------------------------------------------------------
(* Properties of lookups in progress *)

\* What lookupTerm(text) returns when it runs alone on cold caches
AloneCold(text) ==
    WithIndex([AfterIndexRead(0) EXCEPT !.cache = <<>>], text, OmKeys(getDictionaryIndex)).results

LookupDone(k) == tasks[k].op = "lookup" /\ Finished(k)

\* C28: on an unchanging store every lookup that has returned, however it was
\* interleaved with others and whatever the caches held, returned what it returns alone
\* on cold caches; every dataStoreCache record holds the store's value of its key and
\* every searchCache record a list that a completed lookup of its text returned.
C28_InterleavingIndependent ==
    /\ \A k \in 1..Len(tasks) : LookupDone(k) => tasks[k].results = AloneCold(tasks[k].text)
    /\ \A i \in 1..Len(dataStoreCache) :
           dataStoreCache[i].v.data
               = StoreGet(DICTIONARY_KEY \o Underscore \o dataStoreCache[i].k)
    /\ \A i \in 1..Len(searchCache) :
           \E k \in 1..Len(tasks) :
               /\ LookupDone(k) /\ tasks[k].text = searchCache[i].k
               /\ tasks[k].results = searchCache[i].v.results

\* A lookup begun after another one has returned entries while the earlier one is
\* still suspended at a group of bucket reads, and both caches hold records
C28_Witness ==
    /\ \E k1 \in 1..Len(tasks), k2 \in 1..Len(tasks) :
           /\ k1 < k2
           /\ tasks[k1].pc = "get" /\ tasks[k1].answers # <<>>
           /\ LookupDone(k2) /\ tasks[k2].status # "cached" /\ tasks[k2].results # <<>>
    /\ dataStoreCache # <<>>
    /\ searchCache # <<>>

----------------------------------------------------------------------------
(* Properties of the deinflection adapter *)

Distinct(seq) == \A i, j \in 1..Len(seq) : i # j => seq[i] # seq[j]

\* C12: the candidates of a text are a duplicate-free sequence that starts with the
\* text; when the engine throws they are the text alone, and a lookup made with a
\* throwing engine is not rejected.
C12_CandidatesDistinctOriginalFirst ==
    /\ last.op = "candidates" =>
          /\ Len(last.results) >= 1 /\ last.results[1] = last.arg
          /\ Distinct(last.results)
          /\ engine.mode = "throws" => last.results = <<last.arg>>
    /\ (last.op = "lookup" /\ engine.mode = "throws") => last.status # "error"

\* The engine returned the text itself and one other text twice, and the candidates
\* are the text and that other text
C12_Witness ==
    /\ last.op = "candidates" /\ engine.mode = "results"
    /\ Len(engine.results) = 3
    /\ engine.results[1].text = last.arg
    /\ engine.results[2].text # last.arg
    /\ engine.results[3] = engine.results[2]
    /\ Len(last.results) = 2

----------------------------------------------------------------------------
(* Properties of the bucket cache *)

\* The cache key of the last fetch, and whether the cache held a record for it younger
\* than DATASTORE_CACHE_TTL when the fetch was made
FetchedKey == CacheKey(NameC, last.arg[1])
HeldFresh ==
    /\ OmHas(last.pre.dataStoreCache, FetchedKey)
    /\ last.at - OmGet(last.pre.dataStoreCache, FetchedKey).timestamp < DATASTORE_CACHE_TTL

\* C13: getDataStoreData returns the cached value without a store read exactly when the
\* cache holds a record for the key younger than DATASTORE_CACHE_TTL; otherwise it reads
\* the store and records the value with the current time.  Afterwards the cache holds
\* at most DATASTORE_CACHE_MAX records, and a record dropped is the oldest-inserted
\* one, never that of the key just fetched.
C13_BucketCacheGet ==
    last.op = "get" =>
        /\ HeldFresh =>
              /\ last.reads = 0
              /\ last.results = OmGet(last.pre.dataStoreCache, FetchedKey).data
              /\ dataStoreCache = last.pre.dataStoreCache
        /\ ~HeldFresh =>
              /\ last.reads = 1
              /\ last.results = StoreGet(DataKey(NameC, last.arg[1]))
              /\ OmHas(dataStoreCache, FetchedKey)
              /\ OmGet(dataStoreCache, FetchedKey)
                    = [data |-> last.results, timestamp |-> last.at]
        /\ Len(dataStoreCache) <= DATASTORE_CACHE_MAX
        /\ \A n \in 1..Len(last.pre.dataStoreCache) :
              ~OmHas(dataStoreCache, last.pre.dataStoreCache[n].k) =>
                  n = 1 /\ last.pre.dataStoreCache[n].k # FetchedKey

\* A fetch of a key the full cache did not hold dropped the oldest record, whose
\* timestamp was the newest
C13_Witness ==
    /\ last.op = "get"
    /\ Len(last.pre.dataStoreCache) = DATASTORE_CACHE_MAX
    /\ ~OmHas(last.pre.dataStoreCache, FetchedKey)
    /\ ~OmHas(dataStoreCache, last.pre.dataStoreCache[1].k)
    /\ last.pre.dataStoreCache[1].v.timestamp > last.pre.dataStoreCache[2].v.timestamp
    /\ last.results.def

----------------------------------------------------------------------------
(* Properties of the result cache *)

\* C14: after a lookup searchCache holds at most MAX_CACHE_SIZE records; a record is
\* served only while it is younger than CACHE_TTL; a store made at capacity drops the
\* oldest-inserted key and no other, and serving a record changes neither the cache
\* nor the order of its keys.
C14_ResultCacheBounded ==
    last.op = "lookup" =>
        /\ Len(searchCache) <= MAX_CACHE_SIZE
        /\ last.status = "cached" =>
              /\ OmHas(last.pre.searchCache, last.arg)
              /\ last.at - OmGet(last.pre.searchCache, last.arg).timestamp < CACHE_TTL
              /\ last.results = OmGet(last.pre.searchCache, last.arg).results
              /\ searchCache = last.pre.searchCache
        /\ \A n \in 2..Len(last.pre.searchCache) : OmHas(searchCache, last.pre.searchCache[n].k)
        /\ (last.status = "fallback" /\ Len(last.pre.searchCache) >= MAX_CACHE_SIZE) =>
              /\ last.pre.searchCache[1].k # last.arg => ~OmHas(searchCache, last.pre.searchCache[1].k)
              /\ searchCache[Len(searchCache)].k = last.arg
                    \/ OmHas(Tail(last.pre.searchCache), last.arg)

\* A store at capacity dropped the oldest key right after a lookup was served that key
C14_Witness ==
    /\ last.op = "lookup" /\ last.status = "fallback"
    /\ Len(last.pre.searchCache) = MAX_CACHE_SIZE
    /\ ~OmHas(searchCache, last.pre.searchCache[1].k)
    /\ last.prev.op = "lookup" /\ last.prev.status = "cached"
    /\ last.prev.arg = last.pre.searchCache[1].k

====
